---- MODULE Spec2Model ----
(***************************************************************************)
(* Model of the Edge language server's incremental-analysis core:          *)
(*   - DocumentCache   (src/src/utils/document-cache.ts)                   *)
(*   - EdgeValidator   (src/src/server/validator.ts)                       *)
(*   - the document handlers of EdgeLanguageServer                         *)
(*                     (src/src/server/server.ts)                          *)
(* The cache and the validator are separate objects with separate state;   *)
(* SpecCache drives the cache, SpecValidator drives one validate() pass,   *)
(* SpecServer drives the handlers that use both.                           *)
(***************************************************************************)
EXTENDS Integers, Sequences, FiniteSets, TLC

(***************************************************************************)
(* Bounds of the model.                                                    *)
(***************************************************************************)
MaxParses == 3      \* parser.parse calls explored per behaviour
MaxTime == 2        \* largest clock reading explored

URIs == {"a.edge", "b.edge", "c.edge"}
Versions == {1, 2}
Texts == {"t1", "t2", "bad"}
MaxSizeValues == {-1, 0, 1, 2}
TTLValues == {0, 1, 3}
\* The documents handed to getTree: every version and text of a.edge, a text
\* the parser rejects, and two more uris to fill the cache.
Documents ==
    [uri : {"a.edge"}, version : Versions, text : {"t1", "t2"}]
    \cup {[uri |-> "a.edge", version |-> 1, text |-> "bad"],
          [uri |-> "b.edge", version |-> 1, text |-> "t1"],
          [uri |-> "b.edge", version |-> 2, text |-> "t2"],
          [uri |-> "c.edge", version |-> 1, text |-> "t1"]}

NoTree == [ref |-> 0, src |-> "none"]
NoLast ==
    [op |-> "new", uri |-> "none", version |-> 0, text |-> "none",
     hit |-> FALSE, expired |-> FALSE, parsed |-> 0, evicted |-> 0,
     ret |-> NoTree, err |-> "none"]

VARIABLES
    cache,      \* DocumentCache.cache: the Map, as its entries in insertion order
    maxSize,    \* DocumentCache.maxSize
    ttl,        \* DocumentCache.ttl
    now,        \* the reading Date.now() gives
    parses,     \* number of parser.parse calls that returned a tree so far
    last,       \* the last completed call: its arguments and what it did
    phase,      \* where a caller making the same getTree call twice stands
    first       \* what the first of its two calls did, and when

VARIABLES
    visited,      \* the nodes walkTree has handed to the callback, in order
    blockStack,   \* validate's blockStack
    diagnostics,  \* validate's diagnostics
    vpc           \* "walking" during the traversal, "done" once validate returned

VARIABLES
    documents,  \* the server's TextDocuments: the open documents, in open order
    pending,    \* validateEdgeDocument calls the running handler has yet to make
    published,  \* per uri, the list last handed to connection.sendDiagnostics
    analysed    \* what the last validateEdgeDocument call did

VARIABLES
    providers,  \* registerProviders: "unset", "loading", "ready" or "failed"
    startup,    \* the constructor's position, the capability flags, the
                \* handlers registered and the capabilities advertised
    query       \* the completion request being answered and its answers

cacheVars == <<cache, maxSize, ttl, now, parses, last>>
twiceVars == <<phase, first>>
valVars == <<visited, blockStack, diagnostics, vpc>>
serverVars == <<documents, pending, published, analysed>>
bootVars == <<providers, startup>>
classVars == <<query>>
vars == <<cacheVars, twiceVars, valVars, serverVars, bootVars, classVars>>

NoFirst == [call |-> NoLast, at |-> 0]

TwiceIdle == phase = "before" /\ first = NoFirst

\* The uris the editor opens, and the state of a server no event reached.
ServerURIs == {"a.edge", "b.edge"}
NotSent ==
    <<[severity |-> "none", node |-> 0, message |-> "not sent",
       source |-> "none"]>>
NoAnalysis ==
    [event |-> "none", uri |-> "none", version |-> 0, text |-> "none",
     hit |-> FALSE, tree |-> NoTree, threw |-> "none",
     thrown |-> [isError |-> FALSE, message |-> "none"], ret |-> <<>>]

\* The capability flags, all false until an initialize request sets them.
NoFlags ==
    [configuration |-> FALSE, workspaceFolders |-> FALSE,
     relatedInformation |-> FALSE, semanticTokens |-> FALSE,
     signatureHelp |-> FALSE]

\* The handlers the constructor registers while the flags are false.
BaseHandlers ==
    {"initialize", "initialized", "textDocument/didChange",
     "textDocument/didClose", "textDocument/completion", "textDocument/hover",
     "textDocument/definition", "workspace/didChangeConfiguration"}

NewServer ==
    [pc |-> "new", flags |-> NoFlags, handlers |-> {}, advertised |-> {},
     creates |-> 0, loads |-> 0, inits |-> 0]

\* A server whose constructor and listen() have returned.
Listening ==
    [pc |-> "listening", flags |-> NoFlags, handlers |-> BaseHandlers,
     advertised |-> {}, creates |-> 1, loads |-> 0, inits |-> 1]

\* The longest document text and the longest ancestor chain below the root
\* a completion request is asked about.
MaxText == 4
MaxChain == 3

NoQuery ==
    [path |-> "none", text |-> <<>>, offset |-> 0, chain |-> <<>>,
     node |-> "unused", context |-> "none"]

BootIdle == providers = "loading" /\ startup = Listening

ClassIdle == query = NoQuery

\* The further calls of EdgeParser.create one process makes.
MaxCreates == 3

BootNew == providers = "none" /\ startup = NewServer

ServerIdle ==
    /\ BootIdle /\ ClassIdle
    /\ documents = <<>>
    /\ pending = <<>>
    /\ published = [u \in ServerURIs |-> NotSent]
    /\ analysed = NoAnalysis

(***************************************************************************)
(* JavaScript Map operations on the insertion-ordered entry list.          *)
(***************************************************************************)
RECURSIVE SelectSeqNot(_, _)
SelectSeqNot(s, uri) ==
    IF s = <<>> THEN <<>>
    ELSE IF Head(s).uri = uri THEN SelectSeqNot(Tail(s), uri)
         ELSE <<Head(s)>> \o SelectSeqNot(Tail(s), uri)

MapHas(c, uri) == \E i \in 1..Len(c) : c[i].uri = uri

MapGet(c, uri) == c[CHOOSE i \in 1..Len(c) : c[i].uri = uri]

MapDelete(c, uri) == SelectSeqNot(c, uri)

\* Map.set keeps the position of an existing key and appends a new one.
MapSet(c, e) ==
    IF MapHas(c, e.uri)
    THEN [i \in 1..Len(c) |-> IF c[i].uri = e.uri THEN e ELSE c[i]]
    ELSE Append(c, e)

MapKeys(c) == {c[i].uri : i \in 1..Len(c)}

(***************************************************************************)
(* parser.parse: a new tree object per call, built from the text alone.    *)
(***************************************************************************)
ParseThrows(text) == text = "bad"

Parse(text, ref) == [ref |-> ref, src |-> text]

(***************************************************************************)
(* entries.sort((a, b) => a[1].timestamp - b[1].timestamp): Array.sort is  *)
(* stable, so entries of equal timestamp keep their Map order.             *)
(***************************************************************************)
\* The comparator written b - a: newest first.
RECURSIVE InsertSortedDesc(_, _)
InsertSortedDesc(s, e) ==
    IF s = <<>> THEN <<e>>
    ELSE IF e.timestamp > Head(s).timestamp THEN <<e>> \o s
         ELSE <<Head(s)>> \o InsertSortedDesc(Tail(s), e)

\* The comparison written <=: of two entries of one timestamp the later
\* in Map order comes first.
RECURSIVE InsertSortedTiesFirst(_, _)
InsertSortedTiesFirst(s, e) ==
    IF s = <<>> THEN <<e>>
    ELSE IF e.timestamp <= Head(s).timestamp THEN <<e>> \o s
         ELSE <<Head(s)>> \o InsertSortedTiesFirst(Tail(s), e)

RECURSIVE InsertSorted(_, _)
InsertSorted(s, e) ==
    IF s = <<>> THEN <<e>>
    ELSE IF e.timestamp < Head(s).timestamp THEN <<e>> \o s
         ELSE <<Head(s)>> \o InsertSorted(Tail(s), e)

RECURSIVE SortByTimestamp(_)
SortByTimestamp(s) ==
    IF s = <<>> THEN <<>>
    ELSE InsertSorted(SortByTimestamp(SubSeq(s, 1, Len(s) - 1)), s[Len(s)])

RECURSIVE DeleteFirst(_, _, _)
DeleteFirst(c, sorted, n) ==
    IF n = 0 \/ sorted = <<>> THEN c
    ELSE DeleteFirst(MapDelete(c, Head(sorted).uri), Tail(sorted), n - 1)

\* cleanup() with the loop bound one short: i < excess - 1.
CleanupOneShort(c, m) ==
    IF Len(c) <= m THEN [cache |-> c, threw |-> FALSE]
    ELSE LET entries == SortByTimestamp(c)
             excess == Len(c) - m
         IN [cache |-> DeleteFirst(c, entries, excess - 1),
             threw |-> excess - 1 > Len(entries)]

\* cleanup(): the cache it leaves, and whether entries[i][0] read past the
\* end of the array (a TypeError, after every entry has been deleted).
Cleanup(c, m) ==
    IF Len(c) <= m THEN [cache |-> c, threw |-> FALSE]
    ELSE LET entries == SortByTimestamp(c)
             excess == Len(c) - m
         IN [cache |-> DeleteFirst(c, entries, excess),
             threw |-> excess > Len(entries)]

(***************************************************************************)
(* DocumentCache.getTree                                                   *)
(***************************************************************************)
\* The expiry test written <= : an entry of age ttl still counts as fresh.
IsFreshInclusive(cached, t) == t - cached.timestamp <= ttl

IsFresh(cached, t) == t - cached.timestamp < ttl

\* The reuse test without the text comparison.
MatchesVersionOnly(cached, doc) == cached.version = doc.version

Matches(cached, doc) == cached.version = doc.version /\ cached.text = doc.text

NewEntry(doc, tree, t) ==
    [uri |-> doc.uri, version |-> doc.version, text |-> doc.text,
     tree |-> tree, timestamp |-> t]

\* getTree with the parse in a try block whose catch stores the failure:
\* the entry is written with no tree and the error is still raised.
GetTreeCachesFailure(doc, d) ==
    LET found == MapHas(cache, doc.uri)
        cached == MapGet(cache, doc.uri)
        usable == found /\ Matches(cached, doc)
    IN
    IF usable /\ IsFresh(cached, now)
    THEN /\ d = 0
         /\ last' = [op |-> "getTree", uri |-> doc.uri, version |-> doc.version,
                     text |-> doc.text, hit |-> TRUE, expired |-> FALSE,
                     parsed |-> 0, evicted |-> 0, ret |-> cached.tree,
                     err |-> "none"]
         /\ UNCHANGED <<cache, maxSize, ttl, now, parses>>
    ELSE LET c1 == IF usable THEN MapDelete(cache, doc.uri) ELSE cache
         IN
         IF ParseThrows(doc.text)
         THEN /\ d = 0
              /\ cache' = MapSet(c1, NewEntry(doc, NoTree, now))
              /\ last' = [op |-> "getTree", uri |-> doc.uri,
                          version |-> doc.version, text |-> doc.text,
                          hit |-> FALSE, expired |-> usable, parsed |-> 1,
                          evicted |-> 0, ret |-> NoTree, err |-> "parse"]
              /\ UNCHANGED <<maxSize, ttl, now, parses>>
         ELSE /\ parses < MaxParses
              /\ now + d <= MaxTime
              /\ LET tree == Parse(doc.text, parses + 1)
                     c2 == MapSet(c1, NewEntry(doc, tree, now + d))
                     r == Cleanup(c2, maxSize)
                 IN /\ cache' = r.cache
                    /\ last' = [op |-> "getTree", uri |-> doc.uri,
                                version |-> doc.version, text |-> doc.text,
                                hit |-> FALSE, expired |-> usable,
                                parsed |-> 1,
                                evicted |-> Len(c2) - Len(r.cache),
                                ret |-> IF r.threw THEN NoTree ELSE tree,
                                err |-> IF r.threw THEN "TypeError" ELSE "none"]
              /\ parses' = parses + 1
              /\ now' = now + d
              /\ UNCHANGED <<maxSize, ttl>>

\* d is the time parser.parse takes: the clock is read before and after it.
GetTree(doc, d) ==
    LET found == MapHas(cache, doc.uri)
        cached == MapGet(cache, doc.uri)
        usable == found /\ Matches(cached, doc)
    IN
    IF usable /\ IsFresh(cached, now)
    THEN /\ d = 0
         /\ last' = [op |-> "getTree", uri |-> doc.uri, version |-> doc.version,
                     text |-> doc.text, hit |-> TRUE, expired |-> FALSE,
                     parsed |-> 0, evicted |-> 0, ret |-> cached.tree,
                     err |-> "none"]
         /\ UNCHANGED <<cache, maxSize, ttl, now, parses>>
    ELSE LET c1 == IF usable THEN MapDelete(cache, doc.uri) ELSE cache
         IN
         IF ParseThrows(doc.text)
         THEN /\ d = 0
              /\ cache' = c1
              /\ last' = [op |-> "getTree", uri |-> doc.uri,
                          version |-> doc.version, text |-> doc.text,
                          hit |-> FALSE, expired |-> usable, parsed |-> 1,
                          evicted |-> 0, ret |-> NoTree, err |-> "parse"]
              /\ UNCHANGED <<maxSize, ttl, now, parses>>
         ELSE /\ parses < MaxParses
              /\ now + d <= MaxTime
              /\ LET tree == Parse(doc.text, parses + 1)
                     c2 == MapSet(c1, NewEntry(doc, tree, now + d))
                     r == Cleanup(c2, maxSize)
                 IN /\ cache' = r.cache
                    /\ last' = [op |-> "getTree", uri |-> doc.uri,
                                version |-> doc.version, text |-> doc.text,
                                hit |-> FALSE, expired |-> usable,
                                parsed |-> 1,
                                evicted |-> Len(c2) - Len(r.cache),
                                ret |-> IF r.threw THEN NoTree ELSE tree,
                                err |-> IF r.threw THEN "TypeError" ELSE "none"]
              /\ parses' = parses + 1
              /\ now' = now + d
              /\ UNCHANGED <<maxSize, ttl>>

\* getTree handed an undefined parser: the lookup is as ever, and on a miss
\* parser.parse raises a TypeError before anything is stored.
GetTreeNoParser(doc) ==
    LET found == MapHas(cache, doc.uri)
        cached == MapGet(cache, doc.uri)
        usable == found /\ Matches(cached, doc)
    IN
    IF usable /\ IsFresh(cached, now)
    THEN /\ last' = [op |-> "getTree", uri |-> doc.uri, version |-> doc.version,
                     text |-> doc.text, hit |-> TRUE, expired |-> FALSE,
                     parsed |-> 0, evicted |-> 0, ret |-> cached.tree,
                     err |-> "none"]
         /\ UNCHANGED <<cache, maxSize, ttl, now, parses>>
    ELSE /\ cache' = IF usable THEN MapDelete(cache, doc.uri) ELSE cache
         /\ last' = [op |-> "getTree", uri |-> doc.uri,
                     version |-> doc.version, text |-> doc.text,
                     hit |-> FALSE, expired |-> usable, parsed |-> 1,
                     evicted |-> 0, ret |-> NoTree, err |-> "NoParser"]
         /\ UNCHANGED <<maxSize, ttl, now, parses>>

(***************************************************************************)
(* The other operations of DocumentCache.                                  *)
(***************************************************************************)
Called(op, uri) ==
    [op |-> op, uri |-> uri, version |-> 0, text |-> "none", hit |-> FALSE,
     expired |-> FALSE, parsed |-> 0, evicted |-> 0, ret |-> NoTree,
     err |-> "none"]

\* invalidate() that leaves the Map alone.
InvalidateForgets(uri) ==
    /\ last' = Called("invalidate", uri)
    /\ UNCHANGED <<cache, maxSize, ttl, now, parses>>

\* invalidate() written as cache.clear(): every uri goes.
InvalidateClears(uri) ==
    /\ cache' = <<>>
    /\ last' = Called("invalidate", uri)
    /\ UNCHANGED <<maxSize, ttl, now, parses>>

Invalidate(uri) ==
    /\ cache' = MapDelete(cache, uri)
    /\ last' = Called("invalidate", uri)
    /\ UNCHANGED <<maxSize, ttl, now, parses>>

InvalidateAll ==
    /\ cache' = <<>>
    /\ last' = Called("invalidateAll", "none")
    /\ UNCHANGED <<maxSize, ttl, now, parses>>

GetSize(c) == Len(c)

SetTTL(t) ==
    /\ ttl' = t
    /\ last' = Called("setTTL", "none")
    /\ UNCHANGED <<cache, maxSize, now, parses>>

SetMaxSize(m) ==
    LET r == Cleanup(cache, m)
    IN /\ maxSize' = m
       /\ cache' = r.cache
       /\ last' = [Called("setMaxSize", "none") EXCEPT
                      !.evicted = Len(cache) - Len(r.cache),
                      !.err = IF r.threw THEN "TypeError" ELSE "none"]
       /\ UNCHANGED <<ttl, now, parses>>

\* Time passes between two calls.
Tick ==
    /\ now < MaxTime
    /\ now' = now + 1
    /\ UNCHANGED <<cache, maxSize, ttl, parses, last>>

CacheInit ==
    /\ cache = <<>>
    /\ maxSize \in MaxSizeValues
    /\ ttl \in TTLValues
    /\ now = 0
    /\ parses = 0
    /\ last = NoLast

CacheNext ==
    \/ \E doc \in Documents, d \in 0..1 : GetTree(doc, d)
    \/ \E uri \in URIs : Invalidate(uri)
    \/ InvalidateAll
    \/ \E t \in TTLValues : SetTTL(t)
    \/ \E m \in MaxSizeValues : SetMaxSize(m)
    \/ Tick

(***************************************************************************)
(* EdgeValidator.  A syntax node is what the callback reads of it: its     *)
(* type, its error flag, whether it has a child of type "condition",       *)
(* whether its text includes " in ", the text of its first child of type   *)
(* "string" (<<>> when it has none) and its child of type "expression".    *)
(* Texts are sequences of characters.  A node is identified, and its range *)
(* given, by its position in the pre-order walk.                           *)
(***************************************************************************)
Node(type, hasError, cond, hasIn, str, hasExpr, exprText) ==
    [type |-> type, hasError |-> hasError, cond |-> cond, hasIn |-> hasIn,
     str |-> str, hasExpr |-> hasExpr, exprText |-> exprText]

Plain(type, hasError) == Node(type, hasError, FALSE, FALSE, <<>>, FALSE, <<>>)

Letters == {"a", "b"}
Digits == {"1"}

\* text.slice(1, -1)
Slice1(s) == SubSeq(s, 2, Len(s) - 1)

\* extractStringFromNode: null is <<"null">>, which no literal yields.
Null == <<"null">>
ExtractStringFromNode(node) ==
    IF node.str # <<>> THEN Slice1(node.str) ELSE Null

\* a string in a condition: null and "" are falsy
Truthy(s) == s # Null /\ s # <<>>

\* /^[a-zA-Z][a-zA-Z0-9._-]*$/
MatchesComponentName(s) ==
    /\ s # <<>>
    /\ s[1] \in Letters
    /\ \A i \in 2..Len(s) : s[i] \in Letters \cup Digits \cup {".", "_", "-"}

\* The slot, section and block pattern with the component pattern's dot.
MatchesPlainNameWithDot(s) ==
    /\ s # <<>>
    /\ s[1] \in Letters
    /\ \A i \in 2..Len(s) : s[i] \in Letters \cup Digits \cup {".", "_", "-"}

\* /^[a-zA-Z][a-zA-Z0-9_-]*$/
MatchesPlainName(s) ==
    /\ s # <<>>
    /\ s[1] \in Letters
    /\ \A i \in 2..Len(s) : s[i] \in Letters \cup Digits \cup {"_", "-"}

\* includePath.includes("..")
IncludesDotDot(s) == \E i \in 1..(Len(s) - 1) : s[i] = "." /\ s[i + 1] = "."

RECURSIVE TrimStart(_)
TrimStart(s) ==
    IF s # <<>> /\ Head(s) = " " THEN TrimStart(Tail(s)) ELSE s

RECURSIVE TrimEnd(_)
TrimEnd(s) ==
    IF s # <<>> /\ s[Len(s)] = " " THEN TrimEnd(SubSeq(s, 1, Len(s) - 1)) ELSE s

Trim(s) == TrimEnd(TrimStart(s))

Diag(severity, idx, message) ==
    [severity |-> severity, node |-> idx, message |-> message, source |-> "edge"]

\* The switch on node.type: the frame type it pushes, "none" for no case.
OpenerOf(type) ==
    CASE type = "if_directive" -> "if"
      [] type = "unless_directive" -> "unless"
      [] type = "each_directive" -> "each"
      [] type = "component_directive" -> "component"
      [] type = "slot_directive" -> "slot"
      [] type = "section_directive" -> "section"
      [] type = "block_directive" -> "block"
      [] OTHER -> "none"

\* node.type.startsWith("end")
StartsWithEnd(type) ==
    type \in {"end_directive", "endif_directive", "endunless_directive",
              "endeach_directive", "endcomponent_directive",
              "endslot_directive", "endsection_directive",
              "endblock_directive", "endwhile_directive", "endphp_directive"}

\* node.type.replace("end", "").replace("_directive", "")
DirectiveTypeOf(type) ==
    CASE type = "endif_directive" -> "if"
      [] type = "endunless_directive" -> "unless"
      [] type = "endeach_directive" -> "each"
      [] type = "endcomponent_directive" -> "component"
      [] type = "endslot_directive" -> "slot"
      [] type = "endsection_directive" -> "section"
      [] type = "endblock_directive" -> "block"
      [] type = "endwhile_directive" -> "while"
      [] type = "endphp_directive" -> "php"
      [] type = "end_directive" -> ""
      [] OTHER -> type

\* The shape check the switch runs for an opener: the diagnostics it adds.
ShapeCheck(node, idx) ==
    LET name == ExtractStringFromNode(node)
    IN
    CASE node.type \in {"if_directive", "unless_directive"} ->
           IF ~node.cond
           THEN <<Diag("Error", idx,
                       "@" \o OpenerOf(node.type) \o " directive missing condition")>>
           ELSE <<>>
      [] node.type = "each_directive" ->
           IF ~node.hasIn
           THEN <<Diag("Error", idx, "@each directive missing \"in\" keyword")>>
           ELSE <<>>
      [] node.type = "component_directive" ->
           IF Truthy(name) /\ ~MatchesComponentName(name)
           THEN <<Diag("Warning", idx,
                       "Component name should follow naming conventions")>>
           ELSE <<>>
      [] node.type = "slot_directive" ->
           IF Truthy(name) /\ ~MatchesPlainName(name)
           THEN <<Diag("Warning", idx, "Slot name should follow naming conventions")>>
           ELSE <<>>
      [] node.type = "section_directive" ->
           IF Truthy(name) /\ ~MatchesPlainName(name)
           THEN <<Diag("Warning", idx,
                       "Section name should follow naming conventions")>>
           ELSE <<>>
      [] node.type = "block_directive" ->
           IF Truthy(name) /\ ~MatchesPlainName(name)
           THEN <<Diag("Warning", idx, "Block name should follow naming conventions")>>
           ELSE <<>>
      [] OTHER -> <<>>

RemoveAt(s, i) == SubSeq(s, 1, i - 1) \o SubSeq(s, i + 1, Len(s))

\* The typed closer with blockStack.length = i in place of splice(i, 1):
\* the frames above the match are dropped with it.
CloseTypedTruncating(stack, node, idx) ==
    LET directiveType == DirectiveTypeOf(node.type)
        found == {i \in 1..Len(stack) : stack[i].type = directiveType}
    IN IF found # {}
       THEN LET i == CHOOSE k \in found : \A m \in found : m <= k
            IN [stack |-> SubSeq(stack, 1, i - 1), diags |-> <<>>]
       ELSE [stack |-> stack,
             diags |-> <<Diag("Error", idx,
                              "@end" \o directiveType \o " without matching @"
                                 \o directiveType \o " directive")>>]

\* The typed closer filtering the stack: every frame of its type goes.
CloseTypedAll(stack, node, idx) ==
    LET directiveType == DirectiveTypeOf(node.type)
        Keep(f) == f.type # directiveType
    IN IF \E i \in 1..Len(stack) : stack[i].type = directiveType
       THEN [stack |-> SelectSeq(stack, Keep), diags |-> <<>>]
       ELSE [stack |-> stack,
             diags |-> <<Diag("Error", idx,
                              "@end" \o directiveType \o " without matching @"
                                 \o directiveType \o " directive")>>]

\* The loop from the top of blockStack for the nearest frame of the
\* closer's type, and splice(i, 1).
CloseTyped(stack, node, idx) ==
    LET directiveType == DirectiveTypeOf(node.type)
        found == {i \in 1..Len(stack) : stack[i].type = directiveType}
    IN IF found # {}
       THEN LET i == CHOOSE k \in found : \A m \in found : m <= k
            IN [stack |-> RemoveAt(stack, i), diags |-> <<>>]
       ELSE [stack |-> stack,
             diags |-> <<Diag("Error", idx,
                              "@end" \o directiveType \o " without matching @"
                                 \o directiveType \o " directive")>>]

\* The generic closer with shift() in place of pop(): the oldest frame goes.
CloseGenericShifting(stack, idx) ==
    IF Len(stack) = 0
    THEN [stack |-> stack,
          diags |-> <<Diag("Error", idx, "@end without matching block directive")>>]
    ELSE [stack |-> Tail(stack), diags |-> <<>>]

CloseGeneric(stack, idx) ==
    IF Len(stack) = 0
    THEN [stack |-> stack,
          diags |-> <<Diag("Error", idx, "@end without matching block directive")>>]
    ELSE [stack |-> SubSeq(stack, 1, Len(stack) - 1), diags |-> <<>>]

\* validateInterpolation without the trim(): only an empty text is blank.
ValidateInterpolationNoTrim(node, idx) ==
    IF ~node.hasExpr \/ Len(node.exprText) = 0
    THEN <<Diag("Warning", idx, "Empty interpolation")>>
    ELSE <<>>

ValidateInterpolation(node, idx) ==
    IF ~node.hasExpr \/ Len(Trim(node.exprText)) = 0
    THEN <<Diag("Warning", idx, "Empty interpolation")>>
    ELSE <<>>

ValidateInclude(node, idx) ==
    LET includePath == ExtractStringFromNode(node)
    IN IF Truthy(includePath) /\ IncludesDotDot(includePath)
       THEN <<Diag("Warning", idx, "Avoid using relative paths in includes")>>
       ELSE <<>>

\* The callback returning right after the Syntax error of a flagged node.
CallbackStopsAtError(stack, diags, node, idx) ==
    IF node.hasError
    THEN [stack |-> stack,
          diags |-> Append(diags, Diag("Error", idx, "Syntax error"))]
    ELSE LET s2 == IF OpenerOf(node.type) # "none"
                   THEN Append(stack, [type |-> OpenerOf(node.type), node |-> idx])
                   ELSE stack
             typed == IF StartsWithEnd(node.type) /\ node.type # "end_directive"
                      THEN CloseTyped(s2, node, idx)
                      ELSE [stack |-> s2, diags |-> <<>>]
             generic == IF node.type = "end_directive"
                        THEN CloseGeneric(typed.stack, idx)
                        ELSE [stack |-> typed.stack, diags |-> <<>>]
             d5 == IF node.type \in {"interpolation", "safe_interpolation"}
                   THEN ValidateInterpolation(node, idx) ELSE <<>>
             d6 == IF node.type \in {"include_directive", "include_if_directive"}
                   THEN ValidateInclude(node, idx) ELSE <<>>
         IN [stack |-> generic.stack,
             diags |-> diags \o ShapeCheck(node, idx) \o typed.diags
                         \o generic.diags \o d5 \o d6]

\* The callback validate passes to walkTree, for the node at position idx.
Callback(stack, diags, node, idx) ==
    LET d1 == IF node.hasError
              THEN Append(diags, Diag("Error", idx, "Syntax error"))
              ELSE diags
        s2 == IF OpenerOf(node.type) # "none"
              THEN Append(stack, [type |-> OpenerOf(node.type), node |-> idx])
              ELSE stack
        d2 == d1 \o ShapeCheck(node, idx)
        typed == IF StartsWithEnd(node.type) /\ node.type # "end_directive"
                 THEN CloseTyped(s2, node, idx)
                 ELSE [stack |-> s2, diags |-> <<>>]
        generic == IF node.type = "end_directive"
                   THEN CloseGeneric(typed.stack, idx)
                   ELSE [stack |-> typed.stack, diags |-> <<>>]
        d5 == IF node.type \in {"interpolation", "safe_interpolation"}
              THEN ValidateInterpolation(node, idx) ELSE <<>>
        d6 == IF node.type \in {"include_directive", "include_if_directive"}
              THEN ValidateInclude(node, idx) ELSE <<>>
    IN [stack |-> generic.stack,
        diags |-> d2 \o typed.diags \o generic.diags \o d5 \o d6]

MissingEnd(block) ==
    Diag("Error", block.node,
         "@" \o block.type \o " directive missing @end" \o block.type)

\* The trailing loop run from the top of the stack down.
RECURSIVE UnmatchedReversed(_)
UnmatchedReversed(stack) ==
    IF stack = <<>> THEN <<>>
    ELSE <<MissingEnd(stack[Len(stack)])>>
            \o UnmatchedReversed(SubSeq(stack, 1, Len(stack) - 1))

\* The trailing loop replaced by one report for the innermost open block.
UnmatchedInnermostOnly(stack) ==
    IF stack = <<>> THEN <<>> ELSE <<MissingEnd(stack[Len(stack)])>>

\* blockStack.forEach(...) after the traversal.
Unmatched(stack) == [i \in 1..Len(stack) |-> MissingEnd(stack[i])]

(***************************************************************************)
(* The trees validate is run on, as the node sequences of their pre-order  *)
(* walks: up to MaxWide nodes of any kind, or up to MaxDeep nodes of the   *)
(* kinds that drive the block stack.                                       *)
(***************************************************************************)
MaxWide == 1
MaxDeep == 4

GoodName == <<"'", "a", "-", "1", "'">>
DottedName == <<"'", "a", ".", "b", "-", "1", "'">>
BadName == <<"'", "1", "b", "a", "'">>
EmptyLiteral == <<"'", "'">>
ParentPath == <<"'", ".", ".", "/", "a", "'">>

Conditionals == {"if_directive", "unless_directive"}
Named == {"component_directive", "slot_directive", "section_directive",
          "block_directive"}
Closers == {"end_directive", "endif_directive", "endunless_directive",
            "endeach_directive", "endcomponent_directive", "endslot_directive",
            "endsection_directive", "endblock_directive", "endwhile_directive",
            "endphp_directive"}

WideKinds ==
    {Node(t, e, c, FALSE, <<>>, FALSE, <<>>) :
        t \in Conditionals, e \in BOOLEAN, c \in BOOLEAN}
    \cup {Node("each_directive", e, FALSE, i, <<>>, FALSE, <<>>) :
            e \in BOOLEAN, i \in BOOLEAN}
    \cup {Node(t, e, FALSE, FALSE, n, FALSE, <<>>) :
            t \in Named, e \in BOOLEAN,
            n \in {<<>>, GoodName, DottedName, BadName, EmptyLiteral}}
    \cup {Plain(t, e) :
            t \in Closers \cup {"text", "while_directive"}, e \in BOOLEAN}
    \cup {Node(t, e, FALSE, FALSE, <<>>, h, x) :
            t \in {"interpolation", "safe_interpolation"}, e \in BOOLEAN,
            h \in BOOLEAN, x \in {<<>>, <<" ">>, <<" ", "a", " ">>}}
    \cup {Node(t, e, FALSE, FALSE, n, FALSE, <<>>) :
            t \in {"include_directive", "include_if_directive"}, e \in BOOLEAN,
            n \in {<<>>, GoodName, ParentPath, EmptyLiteral}}

DeepKinds ==
    {Node("if_directive", FALSE, TRUE, FALSE, <<>>, FALSE, <<>>),
     Node("if_directive", FALSE, FALSE, FALSE, <<>>, FALSE, <<>>),
     Node("if_directive", TRUE, TRUE, FALSE, <<>>, FALSE, <<>>),
     Node("each_directive", FALSE, FALSE, TRUE, <<>>, FALSE, <<>>),
     Node("component_directive", FALSE, FALSE, FALSE, GoodName, FALSE, <<>>),
     Plain("endif_directive", FALSE),
     Plain("endcomponent_directive", FALSE),
     Plain("end_directive", FALSE),
     Plain("endwhile_directive", FALSE),
     Plain("text", FALSE),
     Plain("text", TRUE)}

InputOk(nodes) ==
    \/ Len(nodes) <= MaxWide
    \/ Len(nodes) <= MaxDeep /\ \A i \in 1..Len(nodes) : nodes[i] \in DeepKinds

\* walkTree hands the next node of the pre-order walk to the callback.
VisitNode(node) ==
    /\ vpc = "walking"
    /\ InputOk(Append(visited, node))
    /\ LET r == Callback(blockStack, diagnostics, node, Len(visited) + 1)
       IN /\ blockStack' = r.stack
          /\ diagnostics' = r.diags
    /\ visited' = Append(visited, node)
    /\ UNCHANGED <<vpc, cacheVars, twiceVars, serverVars, bootVars, classVars>>

\* The walk is over: the unmatched block directives are reported and
\* validate returns diagnostics.
Finish ==
    /\ vpc = "walking"
    /\ diagnostics' = diagnostics \o Unmatched(blockStack)
    /\ vpc' = "done"
    /\ UNCHANGED <<visited, blockStack, cacheVars, twiceVars, serverVars, bootVars, classVars>>

ValInit ==
    /\ visited = <<>>
    /\ blockStack = <<>>
    /\ diagnostics = <<>>
    /\ vpc = "walking"

ValNext ==
    \/ \E node \in WideKinds \cup DeepKinds : VisitNode(node)
    \/ Finish

CacheIdle ==
    /\ cache = <<>> /\ maxSize = 100 /\ ttl = 300000
    /\ now = 0 /\ parses = 0 /\ last = NoLast

\* One validate pass, beside a cache nothing calls.
InitValidator == ValInit /\ CacheIdle /\ TwiceIdle /\ ServerIdle

SpecValidator == InitValidator /\ [][ValNext]_vars

\* The cache on its own: no validate pass and no two-call caller.
InitCache == CacheInit /\ TwiceIdle /\ ValInit /\ ServerIdle

CallGetTree ==
    \E doc \in Documents, d \in 0..1 :
       GetTree(doc, d) /\ UNCHANGED <<twiceVars, valVars, serverVars, bootVars, classVars>>

CallInvalidate ==
    \E uri \in URIs : Invalidate(uri) /\ UNCHANGED <<twiceVars, valVars, serverVars, bootVars, classVars>>

CallInvalidateAll == InvalidateAll /\ UNCHANGED <<twiceVars, valVars, serverVars, bootVars, classVars>>

CallSetTTL ==
    \E t \in TTLValues : SetTTL(t) /\ UNCHANGED <<twiceVars, valVars, serverVars, bootVars, classVars>>

CallSetMaxSize ==
    \E m \in MaxSizeValues : SetMaxSize(m) /\ UNCHANGED <<twiceVars, valVars, serverVars, bootVars, classVars>>

TimePasses == Tick /\ UNCHANGED <<twiceVars, valVars, serverVars, bootVars, classVars>>

NextCache ==
    \/ CallGetTree
    \/ CallInvalidate
    \/ CallInvalidateAll
    \/ CallSetTTL
    \/ CallSetMaxSize
    \/ TimePasses

SpecCache == InitCache /\ [][NextCache]_vars

(***************************************************************************)
(* A caller that calls getTree twice with the same document, as the tests  *)
(* 'should cache parsed documents' and 'should invalidate cached           *)
(* documents' do: nothing but the passing of time, or one invalidate(uri), *)
(* lies between its two calls.                                             *)
(***************************************************************************)
Before ==
    /\ phase = "before"
    /\ CacheNext
    /\ UNCHANGED <<twiceVars, valVars, serverVars, bootVars, classVars>>

FirstCall(doc, d) ==
    /\ phase = "before"
    /\ UNCHANGED <<valVars, serverVars, bootVars, classVars>>
    /\ GetTree(doc, d)
    /\ phase' = "first"
    /\ first' = [call |-> last',
                 at |-> IF MapHas(cache', doc.uri)
                        THEN MapGet(cache', doc.uri).timestamp ELSE now']

Wait ==
    /\ phase \in {"first", "invalidated"}
    /\ Tick
    /\ UNCHANGED <<twiceVars, valVars, serverVars, bootVars, classVars>>

InvalidateBetween ==
    /\ phase = "first"
    /\ Invalidate(first.call.uri)
    /\ phase' = "invalidated"
    /\ UNCHANGED <<first, valVars, serverVars, bootVars, classVars>>

SecondCall(d) ==
    /\ phase \in {"first", "invalidated"}
    /\ GetTree([uri |-> first.call.uri, version |-> first.call.version,
                text |-> first.call.text], d)
    /\ phase' = IF phase = "first" THEN "second" ELSE "secondInvalidated"
    /\ UNCHANGED <<first, valVars, serverVars, bootVars, classVars>>

TwiceNext ==
    \/ Before
    \/ \E doc \in Documents, d \in 0..1 : FirstCall(doc, d)
    \/ Wait
    \/ InvalidateBetween
    \/ \E d \in 0..1 : SecondCall(d)

InitTwice == CacheInit /\ TwiceIdle /\ ValInit /\ ServerIdle

SpecTwice == InitTwice /\ [][TwiceNext]_vars

(***************************************************************************)
(* EdgeLanguageServer: the document handlers and validateEdgeDocument.     *)
(* A handler runs to its end before the next event is taken; the           *)
(* validateEdgeDocument calls it makes are the entries of pending.  The    *)
(* server's cache is new DocumentCache(): maxSize 100, ttl 300000.         *)
(***************************************************************************)
MaxVersion == 2

\* The texts the editor sends: two the parser parses, one it throws on, and
\* one for which parser.parse returns null.
ServerTexts == {"t1", "t2", "bad", "void"}

\* The pre-order walk of the tree parsed from a text: t1 is an if block
\* closed by @end, t2 an if block left open.
TreeNodes(tree) ==
    CASE tree.src = "t1" ->
           <<Node("if_directive", FALSE, TRUE, FALSE, <<>>, FALSE, <<>>),
             Plain("text", FALSE), Plain("end_directive", FALSE)>>
      [] tree.src = "t2" ->
           <<Node("if_directive", FALSE, TRUE, FALSE, <<>>, FALSE, <<>>),
             Plain("text", FALSE)>>
      [] OTHER -> <<>>

\* tree.rootNode of a null tree raises a TypeError.
IsNullTree(tree) == tree.src = "void"

RECURSIVE WalkTree(_, _, _, _)
WalkTree(stack, diags, nodes, idx) ==
    IF idx > Len(nodes) THEN [stack |-> stack, diags |-> diags]
    ELSE LET r == Callback(stack, diags, nodes[idx], idx)
         IN WalkTree(r.stack, r.diags, nodes, idx + 1)

\* EdgeValidator.validate as a function of the tree.
Validate(tree) ==
    LET r == WalkTree(<<>>, <<>>, TreeNodes(tree), 1)
    IN r.diags \o Unmatched(r.stack)

\* What a failing call throws: the parser an Error or some other value,
\* cleanup and validate a TypeError.
NoThrown == [isError |-> FALSE, message |-> "none"]
ParserThrown ==
    {[isError |-> TRUE, message |-> "unexpected input"],
     [isError |-> FALSE, message |-> "halt"]}
CleanupError ==
    [isError |-> TRUE,
     message |-> "Cannot read properties of undefined (reading '0')"]
NoParserError ==
    [isError |-> TRUE,
     message |-> "Cannot read properties of undefined (reading 'parse')"]
NullTreeError ==
    [isError |-> TRUE,
     message |-> "Cannot read properties of null (reading 'rootNode')"]

\* The catch block reading error.message of whatever was thrown.
ErrorMessageOfAny(thrown) == thrown.message

\* error instanceof Error ? error.message : 'Unknown parse error'
ErrorMessage(thrown) ==
    IF thrown.isError THEN thrown.message ELSE "Unknown parse error"

\* The diagnostic of the catch block; node 0 stands for its range, line 0
\* from character 0 to Number.MAX_VALUE.
ParseErrorDiagnostic(thrown) ==
    Diag("Error", 0, "Parse error: " \o ErrorMessage(thrown))

Job(doc, event) == [doc |-> doc, event |-> event]

\* The content-change handler without its invalidate call.
OnDidChangeContentKeeps(uri, text) ==
    /\ pending = <<>>
    /\ LET version == IF MapHas(documents, uri)
                      THEN MapGet(documents, uri).version + 1 ELSE 1
           doc == [uri |-> uri, version |-> version, text |-> text]
       IN /\ version <= MaxVersion
          /\ documents' = MapSet(documents, doc)
          /\ pending' = <<Job(doc, "change")>>
    /\ UNCHANGED <<cacheVars, published, analysed, twiceVars, valVars,
                   bootVars, classVars>>

\* documents.onDidChangeContent, fired when a document is opened (version
\* 1) and on every edit (the next version): invalidate, then the call of
\* validateEdgeDocument.
OnDidChangeContent(uri, text) ==
    /\ pending = <<>>
    /\ LET version == IF MapHas(documents, uri)
                      THEN MapGet(documents, uri).version + 1 ELSE 1
           doc == [uri |-> uri, version |-> version, text |-> text]
       IN /\ version <= MaxVersion
          /\ documents' = MapSet(documents, doc)
          /\ Invalidate(uri)
          /\ pending' = <<Job(doc, "change")>>
    /\ UNCHANGED <<published, analysed, twiceVars, valVars,
                   bootVars, classVars>>

\* The close handler without its invalidate call.
OnDidCloseKeeps(uri) ==
    /\ pending = <<>>
    /\ MapHas(documents, uri)
    /\ documents' = MapDelete(documents, uri)
    /\ UNCHANGED <<cacheVars, pending, published, analysed, twiceVars, valVars,
                   bootVars, classVars>>

\* documents.onDidClose
OnDidClose(uri) ==
    /\ pending = <<>>
    /\ MapHas(documents, uri)
    /\ documents' = MapDelete(documents, uri)
    /\ Invalidate(uri)
    /\ UNCHANGED <<pending, published, analysed, twiceVars, valVars,
                   bootVars, classVars>>

\* connection.onDidChangeConfiguration: validateEdgeDocument for every open
\* document, in documents.all() order; the cache is not touched.
OnDidChangeConfiguration ==
    /\ pending = <<>>
    /\ pending' = [i \in 1..Len(documents) |-> Job(documents[i], "configuration")]
    /\ UNCHANGED <<cacheVars, documents, published, analysed, twiceVars, valVars,
                   bootVars, classVars>>

\* validateEdgeDocument for the next pending call: getTree with
\* this.edgeParser, which is undefined until registerProviders has set it,
\* then validate, and sendDiagnostics with what validate returned or, when
\* either threw, with the one diagnostic of the catch block.
ValidateEdgeDocument(d) ==
    /\ pending # <<>>
    /\ IF providers = "ready"
       THEN GetTree(Head(pending).doc, d)
       ELSE d = 0 /\ GetTreeNoParser(Head(pending).doc)
    /\ LET doc == Head(pending).doc
           threw == IF last'.err # "none" THEN "getTree"
                    ELSE IF IsNullTree(last'.ret) THEN "validate"
                    ELSE "none"
           errors == CASE last'.err = "parse" -> ParserThrown
                       [] last'.err = "TypeError" -> {CleanupError}
                       [] last'.err = "NoParser" -> {NoParserError}
                       [] threw = "validate" -> {NullTreeError}
                       [] OTHER -> {NoThrown}
       IN \E error \in errors :
             LET ret == IF threw = "none" THEN Validate(last'.ret) ELSE <<>>
                 sent == IF threw = "none" THEN ret
                         ELSE <<ParseErrorDiagnostic(error)>>
             IN /\ published' = [published EXCEPT ![doc.uri] = sent]
                /\ analysed' =
                      [event |-> Head(pending).event, uri |-> doc.uri,
                       version |-> doc.version, text |-> doc.text,
                       hit |-> last'.hit, tree |-> last'.ret,
                       threw |-> threw, thrown |-> error, ret |-> ret]
    /\ pending' = Tail(pending)
    /\ UNCHANGED <<documents, twiceVars, valVars,
                   bootVars, classVars>>

\* registerProviders resumes after EdgeParser.create() resolved: the parser,
\* the validator and the providers are assigned in one turn.
ProvidersLoaded ==
    /\ providers = "loading"
    /\ startup.pc \in {"listening", "initialized", "running"}
    /\ pending = <<>>
    /\ providers' = "ready"
    /\ startup' = [startup EXCEPT !.loads = @ + 1]
    /\ UNCHANGED <<cacheVars, serverVars, twiceVars, valVars, classVars>>

\* EdgeParser.create() rejected: registerProviders logs and rethrows, nothing
\* awaits its promise, and a process that survives the unhandled rejection
\* goes on serving events with this.edgeParser undefined.
ProvidersFailed ==
    /\ providers = "loading"
    /\ startup.pc \in {"listening", "initialized", "running"}
    /\ pending = <<>>
    /\ providers' = "failed"
    /\ startup' = [startup EXCEPT !.loads = @ + 1]
    /\ UNCHANGED <<cacheVars, serverVars, twiceVars, valVars, classVars>>

(***************************************************************************)
(* The start of EdgeLanguageServer: the constructor's calls in their       *)
(* order, listen(), and the initialize handshake. startup.handlers is the  *)
(* set of methods the connection has a handler for, startup.advertised the *)
(* optional capabilities of the initialize result; creates, inits and      *)
(* loads count the calls of EdgeParser.create, Parser.init and             *)
(* Language.load.                                                          *)
(***************************************************************************)
\* initializeConnection: no await in its body, so the constructor's call
\* registers both handlers before it goes on.
InitializeConnection ==
    /\ startup.pc = "new"
    /\ startup' = [startup EXCEPT !.pc = "connection",
                     !.handlers = @ \cup {"initialize", "initialized"}]
    /\ UNCHANGED <<providers, cacheVars, serverVars, twiceVars, valVars, classVars>>

\* The constructor's call of registerProviders, not awaited: it runs up to
\* the await inside EdgeParser.create, that is through Parser.init().
RegisterProviders ==
    /\ startup.pc = "connection"
    /\ startup' = [startup EXCEPT !.pc = "providers",
                     !.creates = @ + 1, !.inits = @ + 1]
    /\ providers' = "loading"
    /\ UNCHANGED <<cacheVars, serverVars, twiceVars, valVars, classVars>>

\* registerDocumentHandlers, with the capability flags as they are when the
\* constructor calls it.
RegisterDocumentHandlers ==
    /\ startup.pc = "providers"
    /\ startup' =
         [startup EXCEPT
            !.pc = "handlers",
            !.handlers =
               @ \cup {"textDocument/didChange", "textDocument/didClose",
                       "textDocument/completion", "textDocument/hover",
                       "textDocument/definition",
                       "workspace/didChangeConfiguration"}
                 \cup (IF startup.flags.semanticTokens
                       THEN {"textDocument/semanticTokens/full"} ELSE {})
                 \cup (IF startup.flags.signatureHelp
                       THEN {"textDocument/signatureHelp"} ELSE {})]
    /\ UNCHANGED <<providers, cacheVars, serverVars, twiceVars, valVars, classVars>>

Listen ==
    /\ startup.pc = "handlers"
    /\ startup' = [startup EXCEPT !.pc = "listening"]
    /\ UNCHANGED <<providers, cacheVars, serverVars, twiceVars, valVars, classVars>>

\* The onInitialize handler for a client declaring the capabilities caps:
\* the five flags are set from them, and the result adds the optional
\* providers the flags allow to the four it always has.
OnInitialize(caps) ==
    /\ startup.pc = "listening"
    /\ startup' =
         [startup EXCEPT
            !.pc = "initialized",
            !.flags = caps,
            !.advertised =
               (IF caps.semanticTokens THEN {"semanticTokensProvider"} ELSE {})
                 \cup (IF caps.signatureHelp
                       THEN {"signatureHelpProvider"} ELSE {})
                 \cup (IF caps.workspaceFolders
                       THEN {"workspace.workspaceFolders"} ELSE {})]
    /\ UNCHANGED <<providers, cacheVars, serverVars, twiceVars, valVars, classVars>>

Initialize ==
    \E caps \in [configuration : BOOLEAN, workspaceFolders : BOOLEAN,
                 relatedInformation : BOOLEAN, semanticTokens : BOOLEAN,
                 signatureHelp : BOOLEAN] : OnInitialize(caps)

\* The onInitialized handler.
OnInitialized ==
    /\ startup.pc = "initialized"
    /\ "initialized" \in startup.handlers
    /\ startup' =
         [startup EXCEPT
            !.pc = "running",
            !.handlers =
               @ \cup (IF startup.flags.workspaceFolders
                       THEN {"workspace/didChangeWorkspaceFolders"} ELSE {})]
    /\ UNCHANGED <<providers, cacheVars, serverVars, twiceVars, valVars, classVars>>

\* One more call of EdgeParser.create after the first has resolved: the
\* body has no guard and keeps no instance, so it calls Parser.init and
\* Language.load as the first call did.
Create ==
    /\ providers = "ready"
    /\ startup.creates < MaxCreates
    /\ startup' = [startup EXCEPT !.creates = @ + 1, !.inits = @ + 1,
                                  !.loads = @ + 1]
    /\ UNCHANGED <<providers, cacheVars, serverVars, twiceVars, valVars, classVars>>

NextStartup ==
    \/ InitializeConnection
    \/ RegisterProviders
    \/ RegisterDocumentHandlers
    \/ Listen
    \/ Initialize
    \/ OnInitialized
    \/ ProvidersLoaded
    \/ ProvidersFailed
    \/ Create

InitStartup ==
    /\ CacheIdle /\ TwiceIdle /\ ValInit /\ ClassIdle /\ BootNew
    /\ documents = <<>>
    /\ pending = <<>>
    /\ published = [u \in ServerURIs |-> NotSent]
    /\ analysed = NoAnalysis

SpecStartup == InitStartup /\ [][NextStartup]_vars

(***************************************************************************)
(* EdgeCompletionProvider.provideCompletions: which branch a completion    *)
(* request takes. The repository holds the provider in three forms: one    *)
(* that reads the syntax tree only, the one the server imports, which      *)
(* scans the text and asks the tree last, and one that reads the text      *)
(* only. query.context names the branch that returned.                     *)
(***************************************************************************)
Chars == {"{", "}", "@", "a", " ", "\n", "'"}
NodeTypes ==
    {"mustache", "safe_mustache", "tag", "if_directive", "string", "text"}

\* String.prototype.endsWith("_directive") on the node types in use.
EndsWithDirective(type) == type \in {"if_directive"}

\* The walks up node.parent: chain[1] is the node at the cursor, the last
\* element the root.
IsInsideInterpolationNode(chain) ==
    \E i \in 1..Len(chain) : chain[i] \in {"mustache", "safe_mustache"}

IsInsideDirectiveNode(chain) ==
    \E i \in 1..Len(chain) : chain[i] = "tag" \/ EndsWithDirective(chain[i])

IsInsideString(chain) == chain[1] = "string"

\* provideCompletions asking for the string literal before the ancestors.
ClassifyNodeStringFirst(chain) ==
    IF chain = <<>> THEN "PlainText"
    ELSE IF IsInsideString(chain) THEN "StringLiteral"
    ELSE IF IsInsideInterpolationNode(chain) THEN "Interpolation"
    ELSE IF IsInsideDirectiveNode(chain) THEN "Directive"
    ELSE "PlainText"

\* provideCompletions of the tree-reading provider for the node at the
\* cursor; the empty chain is getNodeAtPosition finding no node.
ClassifyNode(chain) ==
    IF chain = <<>> THEN "PlainText"
    ELSE IF IsInsideInterpolationNode(chain) THEN "Interpolation"
    ELSE IF IsInsideDirectiveNode(chain) THEN "Directive"
    ELSE IF IsInsideString(chain) THEN "StringLiteral"
    ELSE "PlainText"

\* text[i] of JavaScript, i from 0; "" stands for undefined.
CharAt(text, i) == IF i >= 0 /\ i < Len(text) THEN text[i + 1] ELSE ""

\* The while loop of isInsideInterpolation from index i on.
RECURSIVE ScanInterpolation(_, _, _, _)
ScanInterpolation(text, offset, i, inInterpolation) ==
    IF ~(i < offset) THEN inInterpolation
    ELSE IF i < Len(text) - 1 /\ CharAt(text, i) = "{"
              /\ CharAt(text, i + 1) = "{"
    THEN ScanInterpolation(text, offset, i + 2, TRUE)
    ELSE IF i < Len(text) - 1 /\ CharAt(text, i) = "}"
              /\ CharAt(text, i + 1) = "}"
    THEN ScanInterpolation(text, offset, i + 2, FALSE)
    ELSE ScanInterpolation(text, offset, i + 1, inInterpolation)

IsInsideInterpolation(text, offset) ==
    ScanInterpolation(text, offset, 0, FALSE)

\* The index from 0 of the line of the cursor, and the line up to the cursor.
LineStart(text, offset) ==
    LET breaks == {k \in 1..offset : text[k] = "\n"}
    IN IF breaks = {} THEN 0
       ELSE CHOOSE k \in breaks : \A j \in breaks : j <= k

LineText(text, offset) == SubSeq(text, LineStart(text, offset) + 1, offset)

\* String.prototype.indexOf and lastIndexOf for a one- or two-character
\* needle: an index from 0, or -1.
Occurrences(str, needle) ==
    {k \in 0..(Len(str) - Len(needle)) :
        SubSeq(str, k + 1, k + Len(needle)) = needle}

FirstIndexOf(str, needle) ==
    LET found == Occurrences(str, needle)
    IN IF found = {} THEN -1
       ELSE CHOOSE k \in found : \A j \in found : k <= j

LastIndexOf(str, needle) ==
    LET found == Occurrences(str, needle)
    IN IF found = {} THEN -1
       ELSE CHOOSE k \in found : \A j \in found : j <= k

\* The characters " and ` as elements of a text.
DoubleQuote == "dq"
BackQuote == "bq"

IsSpace(c) == c \in {" ", "\n"}
IsWord(c) == c \in {"a"}
IsLetter(c) == c \in {"a"}

\* /<\s*([a-zA-Z]*)$/
IsTypingHtmlTag(lineText) ==
    \E k \in 1..Len(lineText) :
       /\ lineText[k] = "<"
       /\ \E m \in k..Len(lineText) :
             /\ \A j \in (k + 1)..m : IsSpace(lineText[j])
             /\ \A j \in (m + 1)..Len(lineText) : IsLetter(lineText[j])

IsTypingHtmlAttribute(lineText) ==
    /\ LastIndexOf(lineText, <<"<">>) > LastIndexOf(lineText, <<">">>)
    /\ Cardinality(Occurrences(lineText, <<DoubleQuote>>)) % 2 = 0

\* /class\s*=\s*"([^"]*)?$/
IsTypingCssClass(lineText) ==
    \E k \in Occurrences(lineText, <<"c", "l", "a", "s", "s">>) :
      \E e \in (k + 6)..Len(lineText) :
        \E q \in (e + 1)..Len(lineText) :
          /\ \A j \in (k + 6)..(e - 1) : IsSpace(lineText[j])
          /\ lineText[e] = "="
          /\ \A j \in (e + 1)..(q - 1) : IsSpace(lineText[j])
          /\ lineText[q] = DoubleQuote
          /\ \A j \in (q + 1)..Len(lineText) : lineText[j] # DoubleQuote

\* provideCompletions of the provider the server imports: the scan for
\* interpolation, the @ of the line, the three HTML tests, and last the
\* type of the node the parser finds at the cursor.
ClassifyScan(text, offset, node) ==
    LET lineText == LineText(text, offset)
        atIndex == LastIndexOf(lineText, <<"@">>)
    IN
    IF IsInsideInterpolation(text, offset) THEN "Interpolation"
    ELSE IF atIndex # -1 /\ atIndex < Len(lineText) THEN "Directive"
    ELSE IF IsTypingHtmlTag(lineText) THEN "HtmlTag"
    ELSE IF IsTypingHtmlAttribute(lineText) THEN "HtmlAttribute"
    ELSE IF IsTypingCssClass(lineText) THEN "CssClass"
    ELSE IF node = "string" THEN "StringLiteral"
    ELSE "PlainText"

\* Whether ClassifyScan gets as far as asking the parser.
ScanReadsTree(text, offset) ==
    ClassifyScan(text, offset, "text") = "PlainText"

\* /^\s*@\w*$/
IsInDirectiveContext(lineText) ==
    \E k \in 1..Len(lineText) :
       /\ \A j \in 1..(k - 1) : IsSpace(lineText[j])
       /\ lineText[k] = "@"
       /\ \A j \in (k + 1)..Len(lineText) : IsWord(lineText[j])

IsInInterpolationContext(text, offset) ==
    LET beforeCursor == SubSeq(text, 1, offset)
        afterCursor == SubSeq(text, offset + 1, Len(text))
        lastOpenBrace == LastIndexOf(beforeCursor, <<"{", "{">>)
        lastCloseBrace == LastIndexOf(beforeCursor, <<"}", "}">>)
        nextCloseBrace == FirstIndexOf(afterCursor, <<"}", "}">>)
    IN lastOpenBrace > lastCloseBrace /\ nextCloseBrace # -1

\* /['"`]/g matched and of odd length.
IsInStringContext(lineText) ==
    Cardinality({k \in 1..Len(lineText) : lineText[k] \in {"'", DoubleQuote, BackQuote}})
       % 2 = 1

\* provideCompletions of the provider that reads the text only.
ClassifyLine(text, offset) ==
    LET lineText == LineText(text, offset)
    IN
    IF IsInDirectiveContext(lineText) THEN "Directive"
    ELSE IF IsInInterpolationContext(text, offset) THEN "Interpolation"
    ELSE IF IsInStringContext(lineText) THEN "StringLiteral"
    ELSE "PlainText"

DocumentTexts == UNION {[1..n -> Chars] : n \in 0..MaxText}
\* The ancestor chains of a node: up to MaxChain nodes, then the root.
Chains ==
    {<<>>} \cup
    {c \o <<"document">> : c \in UNION {[1..n -> NodeTypes] : n \in 1..MaxChain}}

ProvideCompletionsTree(chain) ==
    /\ query = NoQuery
    /\ query' = [path |-> "tree", text |-> <<>>, offset |-> 0,
                 chain |-> chain, node |-> "unused",
                 context |-> ClassifyNode(chain)]
    /\ UNCHANGED <<cacheVars, twiceVars, valVars, serverVars, bootVars>>

ProvideCompletionsScan(text, offset, node) ==
    /\ query = NoQuery
    /\ query' = [path |-> "scan", text |-> text, offset |-> offset,
                 chain |-> <<>>,
                 node |-> IF ScanReadsTree(text, offset) THEN node
                          ELSE "unused",
                 context |-> ClassifyScan(text, offset, node)]
    /\ UNCHANGED <<cacheVars, twiceVars, valVars, serverVars, bootVars>>

ProvideCompletionsLine(text, offset) ==
    /\ query = NoQuery
    /\ query' = [path |-> "line", text |-> text, offset |-> offset,
                 chain |-> <<>>, node |-> "unused",
                 context |-> ClassifyLine(text, offset)]
    /\ UNCHANGED <<cacheVars, twiceVars, valVars, serverVars, bootVars>>

\* One request is answered in a run.
CompletionTree ==
    query = NoQuery /\ \E chain \in Chains : ProvideCompletionsTree(chain)

CompletionScan ==
    /\ query = NoQuery
    /\ \E text \in DocumentTexts : \E offset \in 0..Len(text) :
          \E node \in {"string", "text"} :
             ProvideCompletionsScan(text, offset, node)

CompletionLine ==
    /\ query = NoQuery
    /\ \E text \in DocumentTexts : \E offset \in 0..Len(text) :
          ProvideCompletionsLine(text, offset)

NextClassifier ==
    \/ CompletionTree
    \/ CompletionScan
    \/ CompletionLine

InitClassifier == CacheIdle /\ TwiceIdle /\ ValInit /\ ServerIdle

SpecClassifier == InitClassifier /\ [][NextClassifier]_vars

ServerInit == ServerIdle

DidChangeContent ==
    \E uri \in ServerURIs, text \in ServerTexts : OnDidChangeContent(uri, text)

DidClose == \E uri \in ServerURIs : OnDidClose(uri)

DidChangeConfiguration == OnDidChangeConfiguration

RunValidateEdgeDocument == \E d \in 0..1 : ValidateEdgeDocument(d)

NextServer ==
    \/ DidChangeContent
    \/ DidClose
    \/ DidChangeConfiguration
    \/ RunValidateEdgeDocument
    \/ ProvidersLoaded
    \/ ProvidersFailed

InitServer == CacheIdle /\ TwiceIdle /\ ValInit /\ ServerInit

SpecServer == InitServer /\ [][NextServer]_vars

(***************************************************************************)
(* Properties of DocumentCache.                                            *)
(***************************************************************************)
Min(a, b) == IF a <= b THEN a ELSE b

EntrySet(c) == {c[i] : i \in 1..Len(c)}

\* A step that is a getTree call: it parsed and stored, or it left the
\* clock alone (Tick moves the clock and records no call).
GetTreeStep == last'.op = "getTree" /\ (parses' = parses + 1 \/ now' = now)

\* A step that is a setMaxSize call.
SetMaxSizeStep == last'.op = "setMaxSize" /\ now' = now

\* The document the call recorded in last' was made for.
LastDoc ==
    [uri |-> last'.uri, version |-> last'.version, text |-> last'.text]

\* The entries getTree may reuse for document doc at clock reading t.
Reusable(c, doc, t) ==
    {e \in EntrySet(c) :
        /\ e.uri = doc.uri /\ e.version = doc.version /\ e.text = doc.text
        /\ t - e.timestamp < ttl}

\* The hit half of getTree, common to the claim as written and as amended.
C1_Hit ==
    /\ last'.hit <=> Reusable(cache, LastDoc, now) # {}
    /\ last'.hit =>
         /\ last'.parsed = 0 /\ last'.err = "none"
         /\ cache' = cache
         /\ \E e \in Reusable(cache, LastDoc, now) : last'.ret = e.tree
    /\ ~last'.hit => last'.parsed = 1

\* The entry a miss stores: the document's version and text, the tree the
\* call returned (a new one), the clock reading after the parse.
C1_Stored ==
    /\ parses' = parses + 1
    /\ last'.ret = Parse(last'.text, parses')
    /\ \A e \in EntrySet(cache) : e.tree.ref # last'.ret.ref
    /\ MapHas(cache', last'.uri)
    /\ MapGet(cache', last'.uri) =
           NewEntry(LastDoc, last'.ret, now')

C1_TreesOfOwnText ==
    \A e \in EntrySet(cache') : e.tree = Parse(e.text, e.tree.ref)

\* C1 as written: getTree returns the stored tree, parses nothing and
\* leaves the cache unchanged if and only if a matching entry younger than
\* ttl exists; every other call that completes parses once, replaces the
\* entry by (version, text, new tree, now) and returns the new tree.
\* (Calls that raise are the subject of C18 and C19.)
C1_AsWritten ==
    [][GetTreeStep =>
         /\ C1_Hit
         /\ (~last'.hit /\ last'.err = "none") => C1_Stored
         /\ C1_TreesOfOwnText]_cacheVars

\* C1 amended: the hit half as written; a miss calls parser.parse exactly
\* once; if parse throws nothing is stored; if it returns, the entry is set
\* to (version, text, new tree, clock reading after the parse) and cleanup
\* runs: with maxSize >= 1 the entry is in the cache on return and the new
\* tree is returned, with maxSize = 0 the new tree is returned but cleanup
\* has already evicted its entry, and with maxSize < 0 cleanup empties the
\* cache and raises a TypeError. Every stored tree is the parse of its
\* entry's own text.
C1_GetTree ==
    [][GetTreeStep =>
         /\ C1_Hit
         /\ ~last'.hit =>
              /\ last'.err = "parse" <=> ParseThrows(last'.text)
              /\ last'.err = "parse" =>
                   /\ last'.ret = NoTree /\ parses' = parses
                   /\ ~MapHas(cache', last'.uri) \/
                         (MapHas(cache, last'.uri)
                            /\ MapGet(cache', last'.uri) = MapGet(cache, last'.uri))
              /\ (last'.err = "none" /\ maxSize >= 1) => C1_Stored
              /\ (last'.err = "none" /\ maxSize < 1) =>
                   /\ maxSize = 0 /\ cache' = <<>>
                   /\ last'.ret = Parse(last'.text, parses')
                   /\ parses' = parses + 1
              /\ last'.err = "TypeError" <=>
                   (maxSize < 0 /\ ~ParseThrows(last'.text))
              /\ last'.err = "TypeError" => cache' = <<>>
         /\ C1_TreesOfOwnText]_cacheVars

\* A miss has replaced an entry of another version by the new one.
C1_Witness ==
    /\ last.op = "getTree" /\ ~last.hit /\ last.err = "none"
    /\ last.version = 2 /\ last.ret.ref >= 2
    /\ MapHas(cache, last.uri)
    /\ MapGet(cache, last.uri).tree = last.ret
    /\ Len(cache) = 2

\* C2 as written: the second of two consecutive getTree calls with the same
\* (uri, version, text) returns the tree the first returned and does not
\* parse; with invalidate(uri) between them it parses again and returns a
\* new tree. (Stated for a cache that can hold an entry at all: maxSize
\* and ttl at least 1.)
C2_AsWritten ==
    /\ (phase = "second" /\ first.call.err = "none"
          /\ maxSize >= 1 /\ ttl >= 1) =>
          (last.hit /\ last.parsed = 0 /\ last.ret = first.call.ret)
    /\ (phase = "secondInvalidated" /\ last.err = "none") =>
          (last.parsed = 1 /\ last.ret # first.call.ret)

\* C2 amended: after a first call that completed, the second call returns
\* the same tree without parsing exactly when the first call's entry is
\* still stored (maxSize >= 1) and less than ttl has passed since that
\* entry was written; when ttl has been reached (always, for ttl = 0) or
\* maxSize = 0 evicted the entry, the second call parses again. With
\* invalidate(uri) between the calls the second call always parses, and a
\* tree it returns is a new one.
C2_SameCallTwice ==
    /\ (phase = "second" /\ first.call.err = "none") =>
          /\ last.hit <=> (maxSize >= 1 /\ now - first.at < ttl)
          /\ last.hit => (last.parsed = 0 /\ last.ret = first.call.ret)
          /\ ~last.hit =>
                /\ last.parsed = 1
                /\ last.err = "none" =>
                      (last.ret.ref = parses
                         /\ last.ret.ref > first.call.ret.ref)
    /\ phase = "secondInvalidated" =>
          /\ ~last.hit /\ last.parsed = 1
          /\ last.err = "none" =>
                (last.ret.ref = parses /\ last.ret.ref > first.call.ret.ref)

\* The first call parsed, time passed, and the second call returned the
\* first call's tree.
C2_Witness ==
    /\ phase = "second" /\ first.call.parsed = 1 /\ first.call.err = "none"
    /\ last.hit /\ last.ret = first.call.ret
    /\ now > first.at

\* C8: for maxSize >= 0 the cache holds at most maxSize entries after every
\* getTree and setMaxSize; storing a new uri leaves min(count + 1, maxSize)
\* entries, and setMaxSize(m) below the count leaves exactly m.
C8_SizeBound ==
    [][(maxSize' >= 0 /\ (GetTreeStep \/ SetMaxSizeStep)) =>
         /\ Len(cache') <= maxSize'
         /\ (parses' = parses + 1 /\ ~MapHas(cache, last'.uri)) =>
              Len(cache') = Min(Len(cache) + 1, maxSize')
         /\ (SetMaxSizeStep /\ maxSize' < Len(cache)) =>
              Len(cache') = maxSize']_cacheVars

\* The cache is full after a store evicted an entry, or after setMaxSize
\* cut it down.
C8_Witness ==
    /\ last.op \in {"getTree", "setMaxSize"}
    /\ last.evicted >= 1 /\ last.err = "none"
    /\ maxSize >= 1 /\ Len(cache) = maxSize

\* The entries cleanup had before it and deleted in this step.
BeforeCleanup ==
    IF parses' = parses + 1
    THEN {e \in EntrySet(cache) : e.uri # last'.uri}
            \cup {NewEntry(LastDoc, Parse(last'.text, parses'), now')}
    ELSE EntrySet(cache)

EvictedNow == BeforeCleanup \ EntrySet(cache')

CleanupStep == parses' = parses + 1 \/ SetMaxSizeStep

Stale(c, doc, t) ==
    {e \in EntrySet(c) :
        /\ e.uri = doc.uri /\ e.version = doc.version /\ e.text = doc.text
        /\ t - e.timestamp >= ttl}

\* C10: setTTL and the passing of time remove nothing, so an entry past
\* its ttl stays and is counted by getSize; a getTree that finds such an
\* entry for its own uri deletes it and goes on as a miss (one parse, and
\* the entry it stores carries the new clock reading); getTree removes an
\* entry of another uri only when the count exceeds maxSize.
C10_LazyExpiry ==
    [][/\ (ttl' # ttl \/ (now' # now /\ parses' = parses)) =>
            (cache' = cache /\ GetSize(cache') = GetSize(cache))
       /\ GetTreeStep =>
            /\ last'.expired <=> Stale(cache, LastDoc, now) # {}
            /\ last'.expired =>
                 /\ ~last'.hit /\ last'.parsed = 1
                 /\ Stale(cache, LastDoc, now) \cap EntrySet(cache') = {}
                 /\ (last'.err = "none" /\ maxSize >= 1) =>
                      /\ MapHas(cache', last'.uri)
                      /\ MapGet(cache', last'.uri).timestamp = now'
                      /\ MapGet(cache', last'.uri).tree = last'.ret
            /\ \A e \in EntrySet(cache) :
                   (e.uri # last'.uri /\ e \notin EntrySet(cache')) =>
                      Cardinality(MapKeys(cache) \cup {last'.uri}) > maxSize
      ]_cacheVars

\* A lookup found its own entry expired while an expired entry of another
\* uri is still in the cache.
C10_Witness ==
    /\ last.op = "getTree" /\ last.expired /\ last.err = "none"
    /\ MapHas(cache, last.uri)
    /\ \E e \in EntrySet(cache) :
          e.uri # last.uri /\ now - e.timestamp >= ttl

(***************************************************************************)
(* Properties of EdgeValidator.validate.                                   *)
(***************************************************************************)
OpenerTypes ==
    {"if", "unless", "each", "component", "slot", "section", "block"}

TypedCloserOf(t) == "end" \o t \o "_directive"

MissingEndError(t, idx) ==
    [severity |-> "Error", node |-> idx,
     message |-> "@" \o t \o " directive missing @end" \o t, source |-> "edge"]

IsMissingEnd(diag) ==
    \E t \in OpenerTypes : diag = MissingEndError(t, diag.node)

SyntaxErrorOf(node, idx) ==
    IF node.hasError
    THEN <<[severity |-> "Error", node |-> idx, message |-> "Syntax error",
            source |-> "edge"]>>
    ELSE <<>>

\* A step in which the callback ran, the node it ran on and its position.
VisitStep == visited' # visited
VisitedNode == visited'[Len(visited')]
VisitedIdx == Len(visited')

IfOk == Node("if_directive", FALSE, TRUE, FALSE, <<>>, FALSE, <<>>)
EachOk == Node("each_directive", FALSE, FALSE, TRUE, <<>>, FALSE, <<>>)

\* The walk without its unflagged text nodes, and where a node sits in it.
IsNotText(n) == n # Plain("text", FALSE)
NonText(nodes) == SelectSeq(nodes, IsNotText)
IndexOf(nodes, n) == CHOOSE i \in 1..Len(nodes) : nodes[i] = n

\* Strict matching of the seven block types: every closer closes the
\* innermost open block, a typed closer only one of its own type, and
\* nothing is left open.
RECURSIVE Balanced(_, _)
Balanced(nodes, open) ==
    IF nodes = <<>> THEN open = <<>>
    ELSE LET n == Head(nodes)
         IN IF OpenerOf(n.type) # "none"
            THEN Balanced(Tail(nodes), Append(open, OpenerOf(n.type)))
            ELSE IF n.type = "end_directive"
            THEN open # <<>>
                   /\ Balanced(Tail(nodes), SubSeq(open, 1, Len(open) - 1))
            ELSE IF \E t \in OpenerTypes : n.type = TypedCloserOf(t)
            THEN open # <<>>
                   /\ n.type = TypedCloserOf(open[Len(open)])
                   /\ Balanced(Tail(nodes), SubSeq(open, 1, Len(open) - 1))
            ELSE Balanced(Tail(nodes), open)

WellFormedTree(nodes) ==
    /\ \A i \in 1..Len(nodes) :
         /\ ~nodes[i].hasError
         /\ ShapeCheck(nodes[i], i) = <<>>
         /\ nodes[i].type \in {"interpolation", "safe_interpolation"} =>
               (nodes[i].hasExpr /\ Trim(nodes[i].exprText) # <<>>)
         /\ nodes[i].type \in {"include_directive", "include_if_directive"} =>
               ~(nodes[i].str # <<>> /\ IncludesDotDot(Slice1(nodes[i].str)))
    /\ Balanced(nodes, <<>>)

\* C3: a tree without error-flagged nodes, whose block openers pass their
\* shape checks and are closed by matching closers in nested order, and
\* which has no blank interpolation and no include path containing "..",
\* gets an empty diagnostic list.
C3_CleanTreeNoDiagnostics ==
    (vpc = "done" /\ WellFormedTree(visited)) => diagnostics = <<>>

\* C4: when validate returns, every frame still on the stack has exactly
\* one Error "@<type> directive missing @end<type>" at the frame's own
\* opening node, there are no other missing-end Errors, and a tree of one
\* well-formed if_directive among text gets exactly that one diagnostic.
C4_MissingEnd ==
    vpc = "done" =>
      /\ \A i \in 1..Len(blockStack) :
           /\ OpenerOf(visited[blockStack[i].node].type) = blockStack[i].type
           /\ Cardinality({k \in 1..Len(diagnostics) :
                  diagnostics[k] =
                     MissingEndError(blockStack[i].type, blockStack[i].node)}) = 1
      /\ Cardinality({k \in 1..Len(diagnostics) : IsMissingEnd(diagnostics[k])})
            = Len(blockStack)
      /\ NonText(visited) = <<IfOk>> =>
            diagnostics = <<MissingEndError("if", IndexOf(visited, IfOk))>>

\* validate returned for a tree of one well-formed if_directive followed
\* by its body text.
C4_Witness ==
    /\ vpc = "done" /\ visited = <<IfOk, Plain("text", FALSE)>>
    /\ blockStack = <<[type |-> "if", node |-> 1]>>
    /\ Len(diagnostics) = 1

\* C5: the callback on an end_directive removes the top frame, whatever
\* its type, and adds no diagnostic for it; on an empty stack it adds one
\* Error at the closer and the stack stays empty. The walk if, each, end
\* (with any text between) ends with the one diagnostic "@if directive
\* missing @endif".
C5_GenericCloser ==
    [][/\ (VisitStep /\ VisitedNode.type = "end_directive") =>
            IF blockStack = <<>>
            THEN /\ blockStack' = <<>>
                 /\ diagnostics' =
                      diagnostics \o SyntaxErrorOf(VisitedNode, VisitedIdx)
                        \o <<[severity |-> "Error", node |-> VisitedIdx,
                              message |-> "@end without matching block directive",
                              source |-> "edge"]>>
            ELSE /\ blockStack' = SubSeq(blockStack, 1, Len(blockStack) - 1)
                 /\ diagnostics' =
                      diagnostics \o SyntaxErrorOf(VisitedNode, VisitedIdx)
       /\ (vpc' = "done"
             /\ NonText(visited') =
                   <<IfOk, EachOk, Plain("end_directive", FALSE)>>) =>
            diagnostics' = <<MissingEndError("if", IndexOf(visited', IfOk))>>
      ]_vars

\* validate returned for the walk if, each, end.
C5_Witness ==
    /\ vpc = "done"
    /\ visited = <<IfOk, EachOk, Plain("end_directive", FALSE)>>
    /\ Len(diagnostics) = 1

\* C6: the callback on a typed closer removes the one frame nearest the
\* top whose type is the closer's type and keeps every other frame in
\* place and in order; without such a frame the stack is unchanged and one
\* Error naming the type is added at the closer.
C6_TypedCloser ==
    [][(VisitStep /\ \E t \in OpenerTypes : VisitedNode.type = TypedCloserOf(t)) =>
          LET t == CHOOSE u \in OpenerTypes : VisitedNode.type = TypedCloserOf(u)
              same == {i \in 1..Len(blockStack) : blockStack[i].type = t}
          IN IF same = {}
             THEN /\ blockStack' = blockStack
                  /\ diagnostics' =
                       diagnostics \o SyntaxErrorOf(VisitedNode, VisitedIdx)
                         \o <<[severity |-> "Error", node |-> VisitedIdx,
                               message |-> "@end" \o t \o " without matching @"
                                              \o t \o " directive",
                               source |-> "edge"]>>
             ELSE /\ \E i \in same :
                       /\ \A j \in same : j <= i
                       /\ Len(blockStack') = Len(blockStack) - 1
                       /\ \A j \in 1..(i - 1) : blockStack'[j] = blockStack[j]
                       /\ \A j \in (i + 1)..Len(blockStack) :
                            blockStack'[j - 1] = blockStack[j]
                  /\ diagnostics' =
                       diagnostics \o SyntaxErrorOf(VisitedNode, VisitedIdx)
      ]_vars

\* An endif_directive has closed the if below an each that stays open.
C6_Witness ==
    /\ Len(visited) = 3
    /\ visited[1] = IfOk /\ visited[2] = EachOk
    /\ visited[3].type = "endif_directive"
    /\ blockStack = <<[type |-> "each", node |-> 2]>>
    /\ diagnostics = <<>>

\* C7: the diagnostics added during the walk are in the order of the walk,
\* and the missing-end Errors follow all of them, one per frame left on
\* the stack, in the order the frames were pushed.
C7_DiagnosticOrder ==
    LET k == IF vpc = "done" THEN Len(diagnostics) - Len(blockStack)
             ELSE Len(diagnostics)
    IN /\ k >= 0
       /\ \A i, j \in 1..k :
             i < j => diagnostics[i].node <= diagnostics[j].node
       /\ \A i \in 1..k : ~IsMissingEnd(diagnostics[i])
       /\ \A i, j \in 1..Len(blockStack) :
             i < j => blockStack[i].node < blockStack[j].node
       /\ vpc = "done" =>
             \A m \in 1..Len(blockStack) :
                diagnostics[k + m] =
                   MissingEndError(blockStack[m].type, blockStack[m].node)

\* validate returned with two blocks left open, after a typed closer
\* removed a frame and a diagnostic was added during the walk.
C7_Witness ==
    /\ vpc = "done"
    /\ Len(blockStack) >= 2
    /\ Len(diagnostics) > Len(blockStack)
    /\ \E i \in 1..Len(visited) :
          visited[i].type = "endif_directive" /\ i > blockStack[1].node

\* The node types some rule of the validator names.
RuledTypes ==
    {"if_directive", "unless_directive", "each_directive",
     "component_directive", "slot_directive", "section_directive",
     "block_directive", "end_directive", "interpolation",
     "safe_interpolation", "include_directive", "include_if_directive"}
    \cup {TypedCloserOf(t) : t \in OpenerTypes}

\* C11: the callback on an unflagged node of a type no rule names appends
\* no diagnostic and leaves the block stack unchanged.
C11_UnknownInert ==
    [][(VisitStep /\ VisitedNode.type \notin RuledTypes
          /\ ~VisitedNode.hasError) =>
          (diagnostics' = diagnostics /\ blockStack' = blockStack)]_vars

\* The identifier pattern of an opener's kind, read off a name.
NameChars(type) ==
    IF type = "component_directive"
    THEN Letters \cup Digits \cup {".", "_", "-"}
    ELSE Letters \cup Digits \cup {"_", "-"}

FollowsPattern(type, name) ==
    /\ Len(name) >= 1
    /\ name[1] \in Letters
    /\ \A i \in 2..Len(name) : name[i] \in NameChars(type)

KindWord(type) ==
    CASE type = "component_directive" -> "Component"
      [] type = "slot_directive" -> "Slot"
      [] type = "section_directive" -> "Section"
      [] type = "block_directive" -> "Block"

NamingWarning(type, idx) ==
    [severity |-> "Warning", node |-> idx,
     message |-> KindWord(type) \o " name should follow naming conventions",
     source |-> "edge"]

\* What the callback added in this step after the node's Syntax error.
AddedByRules ==
    SubSeq(diagnostics',
           Len(diagnostics) + Len(SyntaxErrorOf(VisitedNode, VisitedIdx)) + 1,
           Len(diagnostics'))

\* C12 as written: a named opener gets one naming Warning exactly when its
\* name literal fails the pattern of its kind; a component or slot named
\* 1bad gets exactly one Warning, one named goodName.sub-1 no diagnostic.
C12_AsWritten ==
    [][(VisitStep /\ VisitedNode.type \in Named) =>
          LET n == VisitedNode
              fails == n.str # <<>> /\ ~FollowsPattern(n.type, Slice1(n.str))
          IN /\ AddedByRules =
                   IF fails THEN <<NamingWarning(n.type, VisitedIdx)>> ELSE <<>>
             /\ (n.type \in {"component_directive", "slot_directive"}
                   /\ n.str = BadName) =>
                   AddedByRules = <<NamingWarning(n.type, VisitedIdx)>>
             /\ (n.type \in {"component_directive", "slot_directive"}
                   /\ n.str = DottedName) => AddedByRules = <<>>
      ]_vars

\* C12 amended: a named opener gets one naming Warning, and never an Error,
\* exactly when it has a name literal that is not empty between its quotes
\* and fails the pattern of its kind, where only the component pattern
\* allows a dot. Named 1bad, every kind gets exactly one Warning; named
\* goodName.sub-1 a component gets no diagnostic and a slot, section or
\* block gets one Warning; named '' no kind gets a diagnostic.
C12_NamingWarning ==
    [][(VisitStep /\ VisitedNode.type \in Named) =>
          LET n == VisitedNode
              warn == /\ n.str # <<>>
                      /\ Slice1(n.str) # <<>>
                      /\ ~FollowsPattern(n.type, Slice1(n.str))
          IN /\ AddedByRules =
                   IF warn THEN <<NamingWarning(n.type, VisitedIdx)>> ELSE <<>>
             /\ n.str = BadName => warn
             /\ n.str = DottedName => (warn <=> n.type # "component_directive")
             /\ n.str = EmptyLiteral => ~warn
      ]_vars

\* A slot named goodName.sub-1 has been given its naming Warning.
C12_Witness ==
    /\ Len(visited) = 1
    /\ visited[1].type = "slot_directive" /\ visited[1].str = DottedName
    /\ diagnostics = <<NamingWarning("slot_directive", 1)>>

EmptyInterpolation(idx) ==
    [severity |-> "Warning", node |-> idx, message |-> "Empty interpolation",
     source |-> "edge"]

Blank(text) == \A i \in 1..Len(text) : text[i] = " "

\* C13: the callback on an interpolation or safe_interpolation node adds
\* exactly one Warning "Empty interpolation" when the node has no
\* expression child or that child's text is blank, and nothing otherwise;
\* the block stack is left alone.
C13_EmptyInterpolation ==
    [][(VisitStep /\ VisitedNode.type \in {"interpolation", "safe_interpolation"}) =>
          /\ AddedByRules =
                IF ~VisitedNode.hasExpr \/ Blank(VisitedNode.exprText)
                THEN <<EmptyInterpolation(VisitedIdx)>>
                ELSE <<>>
          /\ blockStack' = blockStack
      ]_vars

\* An interpolation whose expression is a single space got its Warning.
C13_Witness ==
    /\ Len(visited) = 1
    /\ visited[1].type = "interpolation"
    /\ visited[1].hasExpr /\ visited[1].exprText = <<" ">>
    /\ diagnostics = <<EmptyInterpolation(1)>>

IsSyntaxError(diag) == diag.message = "Syntax error"

Unflagged(node) == [node EXCEPT !.hasError = FALSE]

\* C14: every flagged node visited has exactly one Error "Syntax error" at
\* its own position and no unflagged node has one; the callback on a
\* flagged node adds that Error first and then changes the stack and adds
\* the diagnostics it would for the same node unflagged; the walk goes on.
C14_SyntaxError ==
    [][VisitStep =>
          /\ \A i \in 1..Len(visited') :
                Cardinality({k \in 1..Len(diagnostics') :
                               /\ IsSyntaxError(diagnostics'[k])
                               /\ diagnostics'[k].node = i})
                   = IF visited'[i].hasError THEN 1 ELSE 0
          /\ \A k \in 1..Len(diagnostics') :
                IsSyntaxError(diagnostics'[k]) =>
                   diagnostics'[k] =
                      [severity |-> "Error", node |-> diagnostics'[k].node,
                       message |-> "Syntax error", source |-> "edge"]
          /\ SubSeq(diagnostics', 1,
                    Len(diagnostics) + Len(SyntaxErrorOf(VisitedNode, VisitedIdx)))
                = diagnostics \o SyntaxErrorOf(VisitedNode, VisitedIdx)
          /\ LET plain == Callback(blockStack, <<>>, Unflagged(VisitedNode),
                                   VisitedIdx)
             IN /\ blockStack' = plain.stack
                /\ AddedByRules = plain.diags
          /\ vpc' = "walking"
      ]_vars

\* A flagged if_directive pushed its frame and a node after it was visited.
C14_Witness ==
    /\ Len(visited) >= 2
    /\ visited[1].type = "if_directive" /\ visited[1].hasError
    /\ blockStack # <<>> /\ blockStack[1] = [type |-> "if", node |-> 1]
    /\ IsSyntaxError(diagnostics[1])

\* A step that is an invalidate call.
InvalidateStep == last'.op = "invalidate" /\ now' = now

\* C15: invalidate(uri) leaves the cache without an entry for uri, keeps
\* every entry of another uri as it was and where it was, leaves maxSize
\* and ttl alone, and changes nothing when uri has no entry.
C15_Invalidate ==
    [][InvalidateStep =>
          LET Other(e) == e.uri # last'.uri
          IN /\ ~MapHas(cache', last'.uri)
             /\ cache' = SelectSeq(cache, Other)
             /\ GetSize(cache') =
                   GetSize(cache) - (IF MapHas(cache, last'.uri) THEN 1 ELSE 0)
             /\ maxSize' = maxSize /\ ttl' = ttl
             /\ ~MapHas(cache, last'.uri) => cache' = cache
      ]_cacheVars

\* invalidate removed an entry of an older version than the one last
\* asked for, and an entry of another uri stayed.
C15_Witness ==
    /\ last.op = "invalidate"
    /\ last.uri = "a.edge"
    /\ parses = 2 /\ maxSize = 2
    /\ Len(cache) = 1 /\ cache[1].uri = "b.edge" /\ cache[1].tree.ref = 1

\* C18: whatever maxSize and ttl are, no call of the cache raises an error
\* other than the one parser.parse raised inside getTree.
C18_NoOtherError == last.err \in {"none", "parse"}

\* The texts the parser rejects.
Rejected(text) == text = "bad"

\* C19: a getTree whose parser.parse throws fails with that error and
\* returns no tree, stores no entry for the failing (version, text), and
\* leaves every entry of another uri as it was; a getTree for a rejected
\* text is never a hit, so each one calls parser.parse again.
C19_ParseFailure ==
    [][GetTreeStep =>
          /\ Rejected(last'.text) =>
                (~last'.hit /\ last'.parsed = 1 /\ last'.err = "parse")
          /\ last'.err = "parse" =>
                LET Other(e) == e.uri # last'.uri
                IN /\ Rejected(last'.text)
                   /\ last'.ret = NoTree
                   /\ parses' = parses
                   /\ \A e \in EntrySet(cache') :
                         ~(e.uri = last'.uri /\ e.version = last'.version
                             /\ e.text = last'.text)
                   /\ SelectSeq(cache', Other) = SelectSeq(cache, Other)
                   /\ maxSize' = maxSize /\ ttl' = ttl
      ]_cacheVars

\* parser.parse threw for a.edge while trees of a.edge (another text) and
\* of b.edge are stored.
C19_Witness ==
    /\ last.op = "getTree" /\ last.err = "parse" /\ last.uri = "a.edge"
    /\ MapHas(cache, "a.edge") /\ MapHas(cache, "b.edge")

(***************************************************************************)
(* Properties of the server's handlers.                                    *)
(***************************************************************************)
\* The steps of the server: a handler that started calls, and one call of
\* validateEdgeDocument.
ChangeStep ==
    pending = <<>> /\ pending' # <<>> /\ pending'[1].event = "change"
CloseStep == Len(documents') < Len(documents)
ConfigurationStep ==
    pending = <<>> /\ pending' # <<>> /\ pending'[1].event = "configuration"
AnalysisStep == pending # <<>> /\ pending' = Tail(pending)

\* C16: the content-change and close handlers have removed the document's
\* entry before any getTree runs for it: no entry for the uri is in the
\* cache when the handler's validateEdgeDocument call starts or when the
\* document has been closed. The getTree of a change event is therefore a
\* miss that parses the text of that event, and the tree it hands to
\* validate is a new one; no analysis validates a tree of another text
\* than the document's current one.
C16_InvalidateFirst ==
    [][/\ ChangeStep =>
            /\ ~MapHas(cache', pending'[1].doc.uri)
            /\ last' = Called("invalidate", pending'[1].doc.uri)
            /\ pending'[1].doc = MapGet(documents', pending'[1].doc.uri)
       /\ CloseStep =>
            \A u \in MapKeys(documents) \ MapKeys(documents') :
               ~MapHas(cache', u) /\ last' = Called("invalidate", u)
       /\ AnalysisStep =>
            LET job == Head(pending)
            IN /\ job.doc = MapGet(documents, job.doc.uri)
               /\ analysed'.threw = "none" => analysed'.tree.src = job.doc.text
               /\ job.event = "change" =>
                    /\ ~last'.hit /\ last'.parsed = 1
                    /\ last'.err = "none" =>
                         /\ analysed'.tree = Parse(job.doc.text, parses')
                         /\ \A e \in EntrySet(cache) :
                               e.tree.ref < analysed'.tree.ref
      ]_vars

\* The second version of a document, with the text of the first, has been
\* parsed again after its change event.
C16_Witness ==
    /\ analysed.event = "change" /\ analysed.version = 2
    /\ analysed.text = "t1" /\ analysed.threw = "none"
    /\ ~analysed.hit /\ analysed.tree = Parse("t1", 2)
    /\ pending = <<>>

\* C17: the configuration-change handler empties the cache before it
\* re-analyses the open documents, so none of those analyses reuses a tree.
C17_ConfigurationClears ==
    [][/\ ConfigurationStep => cache' = <<>>
       /\ (AnalysisStep /\ Head(pending).event = "configuration") =>
            ~last'.hit
      ]_vars

\* C20 as written: when getTree or validate threw, the list published for
\* the document is the one Error whose message carries the text of what
\* was thrown.
C20_AsWritten ==
    analysed.threw # "none" =>
       published[analysed.uri] =
          <<[severity |-> "Error", node |-> 0,
             message |-> "Parse error: " \o analysed.thrown.message,
             source |-> "edge"]>>

\* C20 amended: every validateEdgeDocument call publishes for its document
\* and for no other. When getTree or validate threw, the list is exactly
\* one Error on line 0 with source "edge", none of validate's diagnostics
\* is in it, and its message is "Parse error: " followed by the thrown
\* Error's message, or by "Unknown parse error" when what was thrown is not
\* an Error; the handler goes on to its next call. When nothing threw, the
\* list is what validate returned.
C20_CatchPublishes ==
    [][AnalysisStep =>
          LET uri == Head(pending).doc.uri
              failed == last'.err # "none" \/ last'.ret.src = "void"
          IN /\ published'[uri] # NotSent
             /\ \A u \in ServerURIs \ {uri} : published'[u] = published[u]
             /\ analysed'.uri = uri
             /\ failed <=> analysed'.threw # "none"
             /\ failed =>
                  /\ analysed'.ret = <<>>
                  /\ published'[uri] =
                       <<[severity |-> "Error", node |-> 0,
                          message |->
                             IF analysed'.thrown.isError
                             THEN "Parse error: " \o analysed'.thrown.message
                             ELSE "Parse error: Unknown parse error",
                          source |-> "edge"]>>
             /\ ~failed => published'[uri] = analysed'.ret
      ]_vars

\* The parser threw a value that is not an Error and the catch block's
\* diagnostic replaced the list published before for the open document.
C20_Witness ==
    /\ analysed.threw = "getTree" /\ ~analysed.thrown.isError
    /\ analysed.version = 2
    /\ published[analysed.uri] =
          <<[severity |-> "Error", node |-> 0,
             message |-> "Parse error: Unknown parse error",
             source |-> "edge"]>>

\* The closers of the walk and the Errors for a closer that found no frame.
IsCloser(node) == StartsWithEnd(node.type)
IsOpener(node) == OpenerOf(node.type) # "none"

UnmatchedEndMessages ==
    {"@end" \o t \o " without matching @" \o t \o " directive" :
        t \in OpenerTypes \cup {"while", "php"}}
    \cup {"@end without matching block directive"}

IsUnmatchedEnd(diag) ==
    diag.severity = "Error" /\ diag.message \in UnmatchedEndMessages

Count(seq, Test(_)) == Cardinality({i \in 1..Len(seq) : Test(seq[i])})

\* C25: an opener pushes exactly one frame, for itself; a closer either
\* removes exactly one frame and adds no diagnostic of its own, or leaves
\* the stack and adds exactly one unmatched-end Error. So the frames on the
\* stack are those of distinct openers visited earlier, their number is the
\* openers less the closers that removed a frame, and when validate returns
\* the missing-end Errors are as many.
C25_Accounting ==
    [][/\ VisitStep =>
            /\ IsOpener(VisitedNode) =>
                  blockStack' =
                     Append(blockStack,
                            [type |-> OpenerOf(VisitedNode.type),
                             node |-> VisitedIdx])
            /\ IsCloser(VisitedNode) =>
                  \/ /\ Len(blockStack') = Len(blockStack) - 1
                     /\ AddedByRules = <<>>
                  \/ /\ blockStack' = blockStack
                     /\ Len(AddedByRules) = 1
                     /\ IsUnmatchedEnd(AddedByRules[1])
                     /\ AddedByRules[1].node = VisitedIdx
            /\ (~IsOpener(VisitedNode) /\ ~IsCloser(VisitedNode)) =>
                  blockStack' = blockStack
       /\ \A i \in 1..Len(blockStack') :
             /\ blockStack'[i].node \in 1..Len(visited')
             /\ OpenerOf(visited'[blockStack'[i].node].type) = blockStack'[i].type
             /\ \A j \in 1..Len(blockStack') :
                   i # j => blockStack'[i].node # blockStack'[j].node
       /\ Len(blockStack') =
             Count(visited', IsOpener)
               - (Count(visited', IsCloser) - Count(diagnostics', IsUnmatchedEnd))
       /\ vpc' = "done" =>
             Count(diagnostics', IsMissingEnd) = Len(blockStack')
      ]_vars

\* validate returned after one closer removed a frame, one closer found
\* none, and one opener stayed open.
C25_Witness ==
    /\ vpc = "done" /\ Len(visited) = 4
    /\ visited[3].type = "endif_directive"
    /\ visited[4].type = "endcomponent_directive"
    /\ Len(blockStack) = 1 /\ Len(diagnostics) = 2

\* C28: every entry of the server's cache belongs to a document that is
\* open; a close leaves no entry for its uri.
C28_NoClosedEntries ==
    /\ \A i \in 1..Len(cache) : MapHas(documents, cache[i].uri)
    /\ \A u \in ServerURIs : ~MapHas(documents, u) => ~MapHas(cache, u)

\* a.edge was analysed and then closed while b.edge stays open and cached.
C28_Witness ==
    /\ published["a.edge"] # NotSent /\ ~MapHas(documents, "a.edge")
    /\ MapHas(documents, "b.edge") /\ MapHas(cache, "b.edge")
    /\ parses >= 2 /\ pending = <<>>

\* C29: with maxSize >= 1, a getTree that missed and returned has its
\* entry in the cache, with the tree it returned, whatever the timestamps
\* of the other entries.
C29_KeepsStored ==
    [][(GetTreeStep /\ ~last'.hit /\ last'.err = "none" /\ maxSize >= 1) =>
          /\ MapHas(cache', last'.uri)
          /\ MapGet(cache', last'.uri).tree = last'.ret
          /\ MapGet(cache', last'.uri).version = last'.version
          /\ MapGet(cache', last'.uri).text = last'.text
      ]_cacheVars

\* A store evicted an entry of the same timestamp as the one it wrote.
C29_Witness ==
    /\ last.op = "getTree" /\ last.evicted >= 1 /\ last.err = "none"
    /\ now = 0 /\ maxSize >= 1
    /\ MapHas(cache, last.uri)

CatchList(message) ==
    <<[severity |-> "Error", node |-> 0,
       message |-> "Parse error: " \o message, source |-> "edge"]>>

\* The lists an analysis of a text may publish: the validator's result for
\* the two texts that parse, the catch block's list for the other two.
ExpectedLists(text) ==
    CASE text = "t1" -> {<<>>}
      [] text = "t2" -> {<<MissingEndError("if", 1)>>}
      [] text = "bad" -> {CatchList("unexpected input"),
                          CatchList("Unknown parse error")}
      [] text = "void" ->
           {CatchList("Cannot read properties of null (reading 'rootNode')")}

\* C26: a change event issues one validation request, for its document; a
\* configuration change one per open document, in their order; requests
\* are served first come first served, each publishing one list that
\* replaces the one of its own document and no other; nothing else
\* publishes. Once the requests are served, the list of every open
\* document is the result for its current text: what validate returns for
\* it, or the catch block's one diagnostic when the analysis threw.
C26_PublishOrder ==
    [][/\ ChangeStep =>
            (Len(pending') = 1 /\ published' = published
               /\ pending'[1].doc = MapGet(documents', pending'[1].doc.uri))
       /\ ConfigurationStep =>
            /\ published' = published
            /\ pending' = [i \in 1..Len(documents) |->
                             [doc |-> documents[i], event |-> "configuration"]]
       /\ AnalysisStep =>
            /\ analysed'.uri = Head(pending).doc.uri
            /\ analysed'.version = Head(pending).doc.version
            /\ published'[analysed'.uri] \in ExpectedLists(Head(pending).doc.text)
            /\ \A u \in ServerURIs \ {analysed'.uri} : published'[u] = published[u]
       /\ (~AnalysisStep) => published' = published
       /\ pending' = <<>> =>
            \A i \in 1..Len(documents') :
               published'[documents'[i].uri] \in ExpectedLists(documents'[i].text)
      ]_vars

\* C27: every analysis runs with the parser registerProviders creates: no
\* validateEdgeDocument call finds this.edgeParser undefined, and no list
\* published for a document is the catch block's report of a parser that
\* is missing because its load is pending or has failed.
C27_ParserExists ==
    [][AnalysisStep =>
         /\ providers = "ready"
         /\ published'[analysed'.uri] # CatchList(NoParserError.message)
      ]_vars


\* C24: one process loads the grammar once: however many times
\* EdgeParser.create is called after the first call resolved, Language.load
\* has run once.
C24_LoadedOnce == providers = "ready" => startup.loads = 1

\* C30: an optional provider the initialize result advertises has its
\* request handler registered on the connection.
C30_AdvertisedHandled ==
    /\ "semanticTokensProvider" \in startup.advertised
          => "textDocument/semanticTokens/full" \in startup.handlers
    /\ "signatureHelpProvider" \in startup.advertised
          => "textDocument/signatureHelp" \in startup.handlers


InterpolationFamily == {"mustache", "safe_mustache"}
DirectiveFamily == {"tag", "if_directive"}
HasAncestor(chain, family) == \E i \in 1..Len(chain) : chain[i] \in family

\* C21: the tree-reading provider answers Interpolation for a node with an
\* interpolation ancestor whatever else encloses it, Directive for a node
\* with a directive or tag ancestor and no interpolation ancestor even
\* when the node is a string, StringLiteral for a string node with
\* neither, and PlainText for the rest.
C21_PriorityOrder ==
    (query.path = "tree" /\ query.chain # <<>>) =>
       LET inInterpolation == HasAncestor(query.chain, InterpolationFamily)
           inDirective == HasAncestor(query.chain, DirectiveFamily)
           isString == query.chain[1] = "string"
       IN /\ inInterpolation => query.context = "Interpolation"
          /\ (~inInterpolation /\ inDirective) => query.context = "Directive"
          /\ (~inInterpolation /\ ~inDirective /\ isString)
                => query.context = "StringLiteral"
          /\ (~inInterpolation /\ ~inDirective /\ ~isString)
                => query.context = "PlainText"

\* A string inside a directive inside an interpolation is Interpolation.
C21_Witness ==
    /\ query.path = "tree"
    /\ query.chain = <<"string", "if_directive", "mustache", "document">>
    /\ query.context = "Interpolation"

OpeningBraces(text) == Occurrences(text, <<"{", "{">>)
ClosingBraces(text) == Occurrences(text, <<"}", "}">>)

\* The cursor is after a {{ and at or before the first }} that follows it.
Between(text, offset) ==
    \E p \in OpeningBraces(text) :
       /\ p + 2 <= offset
       /\ \E q \in ClosingBraces(text) : q >= offset
       /\ ~\E q \in ClosingBraces(text) : p + 2 <= q /\ q < offset

\* Some {{ before the cursor has no }} between it and the cursor.
Enclosed(text, offset) ==
    \E p \in OpeningBraces(text) :
       /\ p + 2 <= offset
       /\ ~\E q \in ClosingBraces(text) : p + 2 <= q /\ q + 2 <= offset

\* C22: a provider that reads the text answers Interpolation for a cursor
\* between a {{ and its matching }}, and does not answer Interpolation for
\* a cursor that no open {{ encloses.
C22_ScanInterpolation ==
    query.path \in {"scan", "line"} =>
       /\ Between(query.text, query.offset) => query.context = "Interpolation"
       /\ ~Enclosed(query.text, query.offset)
             => query.context # "Interpolation"

\* An @ before the cursor with no white space between it and the cursor.
UnclosedMarker(lineText) ==
    \E k \in 1..Len(lineText) :
       /\ lineText[k] = "@"
       /\ \A j \in (k + 1)..Len(lineText) : ~IsSpace(lineText[j])

\* C23: a provider that reads the text answers Directive only for a cursor
\* whose line, up to the cursor, has a directive marker that is not yet
\* closed.
C23_DirectiveOnlyUnclosed ==
    (query.path \in {"scan", "line"} /\ query.context = "Directive") =>
       UnclosedMarker(LineText(query.text, query.offset))

====
